---- MODULE Spec2Model ----
(***************************************************************************)
(* The emotion engine of src/api/emotion-engine-db.js: tiered word         *)
(* resolution (in-process cache, words table, DeepSeek inference with      *)
(* write-back) and the per-text analysis built on it.                      *)
(*                                                                         *)
(* Numbers are fixed point, in thousandths: 0.125 is 125, 1.0 is 1000.     *)
(* Strings the code inspects character by character (the text, its words)  *)
(* are sequences of one-character strings.                                 *)
(***************************************************************************)
EXTENDS Integers, Sequences, FiniteSets, TLC

VARIABLES wordCache, words_table, deepseekApiKey, frame, io, tokensUsed, failedWords,
          sessions, session_messages, profiles, request, now, sessionLog,
          logWrites, api_processing_logs,
          migration, rateLimits, authClock, authLog

\* The state of the emotion engine, that of the session endpoints, the
\* INSERTs into api_processing_logs that are in flight with the table, and
\* the state of the two components that run apart from these: the migration
\* script and the token authenticator.
engineVars == <<wordCache, words_table, deepseekApiKey, frame, io, tokensUsed, failedWords>>
sessionVars == <<sessions, session_messages, profiles, request, now, sessionLog>>

logVars == <<logWrites, api_processing_logs>>

standaloneVars == <<migration, rateLimits, authClock, authLog>>

vars == <<engineVars, sessionVars, logVars, standaloneVars>>

(***************************************************************************)
(* Bounds of the model.                                                    *)
(***************************************************************************)
\* Tokens analysed over the life of the process, all analyzeText calls
\* together (Spec).
MaxTokens == 3
\* Tokens of the one text the process analyses (SpecLong).
MaxLongText == 4
\* Tokens of the texts of the requests served concurrently (SpecConcurrent).
MaxConcurrentTokens == 2
\* Tokens of the one text given to a process with a warm cache (SpecAggregate).
MaxSampleWords == 2
\* Messages added to a session (SpecSession).
MaxMessages == 4
\* Seconds that pass (SpecSession).
MaxElapsed == 1
\* Messages added to a session by overlapping requests (SpecSessionRace).
MaxRaceMessages == 1
\* Tokens analysed by a process whose log writes are followed (SpecLog).
MaxLogTokens == 2
\* Pieces of the texts the entry points pass to analyzeText (SpecEntry).
MaxEntryTokens == 4
\* Tokens analysed by a process whose status is asked for (SpecStatus).
MaxStatusTokens == 2
\* Tokens of the texts of the requests served while an inference call hangs
\* (SpecHung).
MaxHungTokens == 3

(***************************************************************************)
(* Characters and strings.                                                 *)
(***************************************************************************)
UpperCase == <<"A","B","C","D","E","F","G","H","I","J","K","L","M",
               "N","O","P","Q","R","S","T","U","V","W","X","Y","Z">>
LowerCase == <<"a","b","c","d","e","f","g","h","i","j","k","l","m",
               "n","o","p","q","r","s","t","u","v","w","x","y","z">>
Digits == {"0","1","2","3","4","5","6","7","8","9"}
Range(s) == {s[k] : k \in DOMAIN s}

\* String.prototype.toLowerCase, one character.
ToLowerChar(ch) ==
    IF \E k \in DOMAIN UpperCase : UpperCase[k] = ch
    THEN LowerCase[CHOOSE k \in DOMAIN UpperCase : UpperCase[k] = ch]
    ELSE ch

\* String.prototype.toLowerCase.
ToLowerCase(s) == [k \in DOMAIN s |-> ToLowerChar(s[k])]

\* The character class \s, for the whitespace the texts contain.
IsSpace(ch) == ch \in {" ", "\t", "\n"}

\* The character class [a-zA-Z0-9].
IsAlnum(ch) == ch \in Range(UpperCase) \cup Range(LowerCase) \cup Digits

\* The first index >= k of s that holds no whitespace, Len(s) + 1 if none.
SkipSpace(s, k) ==
    IF \E m \in k..Len(s) : ~IsSpace(s[m])
    THEN CHOOSE m \in k..Len(s) : ~IsSpace(s[m]) /\ \A n \in k..(m - 1) : IsSpace(s[n])
    ELSE Len(s) + 1

\* text.split(/\s+/): the pieces between maximal runs of whitespace, empty
\* pieces at the ends included.
RECURSIVE SplitFrom(_, _, _)
SplitFrom(s, k, cur) ==
    IF k > Len(s) THEN <<cur>>
    ELSE IF IsSpace(s[k]) THEN <<cur>> \o SplitFrom(s, SkipSpace(s, k), <<>>)
    ELSE SplitFrom(s, k + 1, Append(cur, s[k]))

SplitWhitespace(s) == SplitFrom(s, 1, <<>>)

\* word.replace(/[^a-zA-Z0-9]/g, '').
StripNonAlnum(w) == SelectSeq(w, IsAlnum)

\* /^\d+$/.test(word).
IsAllDigits(w) == Len(w) >= 1 /\ \A k \in DOMAIN w : w[k] \in Digits

\* The tokens joined by single spaces.
RECURSIVE JoinTokens(_)
JoinTokens(ts) ==
    IF Len(ts) = 0 THEN <<>>
    ELSE IF Len(ts) = 1 THEN ts[1]
    ELSE ts[1] \o <<" ">> \o JoinTokens(Tail(ts))

(***************************************************************************)
(* isEmotionallySignificant.                                               *)
(***************************************************************************)
neutralWords == {
    <<"i">>, <<"m","e">>, <<"m","y">>, <<"m","i","n","e">>, <<"m","y","s","e","l","f">>,
    <<"y","o","u">>, <<"y","o","u","r">>, <<"y","o","u","r","s">>,
    <<"y","o","u","r","s","e","l","f">>, <<"h","e">>, <<"s","h","e">>, <<"i","t">>,
    <<"h","i","s">>, <<"h","e","r">>, <<"i","t","s">>, <<"h","i","m">>, <<"w","e">>,
    <<"u","s">>, <<"o","u","r">>, <<"t","h","e","y">>, <<"t","h","e","m">>,
    <<"t","h","e","i","r">>, <<"a","m">>, <<"i","s">>, <<"a","r","e">>, <<"w","a","s">>,
    <<"w","e","r","e">>, <<"b","e">>, <<"b","e","e","n">>, <<"h","a","v","e">>,
    <<"h","a","s">>, <<"h","a","d">>, <<"d","o">>, <<"d","o","e","s">>, <<"d","i","d">>,
    <<"w","i","l","l">>, <<"w","o","u","l","d">>, <<"c","a","n">>, <<"c","o","u","l","d">>,
    <<"t","h","e">>, <<"a">>, <<"a","n">>, <<"a","n","d">>, <<"o","r">>, <<"b","u","t">>,
    <<"i","n">>, <<"o","n">>, <<"a","t">>, <<"t","o">>, <<"f","o","r">>, <<"o","f">>,
    <<"w","i","t","h">>, <<"t","h","i","s">>, <<"t","h","a","t">>, <<"w","h","a","t">>,
    <<"w","h","e","r","e">>, <<"w","h","e","n">>, <<"w","h","y">>, <<"h","o","w">>,
    <<"w","h","o">>, <<"w","h","i","c","h">>
    }

MinSignificantLength == 3

\* isEmotionallySignificant without the test for numbers.
isSignificantAlsoIfNumeric(word) ==
    /\ ToLowerCase(word) \notin neutralWords
    /\ Len(word) >= MinSignificantLength

isEmotionallySignificant(word) ==
    /\ ToLowerCase(word) \notin neutralWords
    /\ Len(word) >= MinSignificantLength
    /\ ~IsAllDigits(word)

(***************************************************************************)
(* JavaScript values: undefined, null, and objects with ordered keys.      *)
(***************************************************************************)
Undefined == [undefined |-> TRUE]
Null == [null |-> TRUE]

\* The order the code writes the eight categories in, everywhere it lists them.
EmotionNames == <<"joy", "trust", "anticipation", "surprise",
                  "anger", "fear", "sadness", "disgust">>

\* An emotion_probs object: its keys in insertion order, and their values.
Probs(keys, vals) == [keys |-> keys, vals |-> vals]

HasKey(o, name) == o # Undefined /\ \E k \in DOMAIN o.keys : o.keys[k] = name
ValueOf(o, name) == o.vals[CHOOSE k \in DOMAIN o.keys : o.keys[k] = name]

RECURSIVE SeqSum(_)
SeqSum(s) == IF Len(s) = 0 THEN 0 ELSE Head(s) + SeqSum(Tail(s))

(***************************************************************************)
(* The defaults of the words table and of saveWordToDatabase.              *)
(***************************************************************************)
DefaultProb == 125
DefaultVad == 500
DefaultStrength == 500

\* emotionData.emotion_probs?.<name> || 0.125
ProbOrDefault(emotionData, name) ==
    IF ~HasKey(emotionData.emotion_probs, name) THEN DefaultProb
    ELSE IF ValueOf(emotionData.emotion_probs, name) = 0 THEN DefaultProb
    ELSE ValueOf(emotionData.emotion_probs, name)

\* emotionData.vad?.<axis> || 0.5
VadOrDefault(emotionData, axis) ==
    IF emotionData.vad = Undefined THEN DefaultVad
    ELSE IF emotionData.vad[axis] = 0 THEN DefaultVad
    ELSE emotionData.vad[axis]

\* emotionData.sentiment?.polarity || 'neutral'
PolarityOrDefault(emotionData) ==
    IF emotionData.sentiment = Undefined THEN "neutral"
    ELSE IF emotionData.sentiment.polarity = "" THEN "neutral"
    ELSE emotionData.sentiment.polarity

\* emotionData.sentiment?.strength || 0.5
StrengthOrDefault(emotionData) ==
    IF emotionData.sentiment = Undefined THEN DefaultStrength
    ELSE IF emotionData.sentiment.strength = 0 THEN DefaultStrength
    ELSE emotionData.sentiment.strength

\* The parameter list of saveWordToDatabase's INSERT, as the row it writes.
InsertedRow(word, emotionData) ==
    [word |-> word,
     valence |-> VadOrDefault(emotionData, "valence"),
     arousal |-> VadOrDefault(emotionData, "arousal"),
     dominance |-> VadOrDefault(emotionData, "dominance"),
     emotion_joy |-> ProbOrDefault(emotionData, "joy"),
     emotion_trust |-> ProbOrDefault(emotionData, "trust"),
     emotion_anticipation |-> ProbOrDefault(emotionData, "anticipation"),
     emotion_surprise |-> ProbOrDefault(emotionData, "surprise"),
     emotion_anger |-> ProbOrDefault(emotionData, "anger"),
     emotion_fear |-> ProbOrDefault(emotionData, "fear"),
     emotion_sadness |-> ProbOrDefault(emotionData, "sadness"),
     emotion_disgust |-> ProbOrDefault(emotionData, "disgust"),
     sentiment_polarity |-> PolarityOrDefault(emotionData),
     sentiment_strength |-> StrengthOrDefault(emotionData)]

\* An INSERT that replaced the row of a word already stored, which the
\* migration's statement is not.
InsertOrReplace(table, row) ==
    {r \in table : r.word # row.word} \cup {row}

\* INSERT ... ON CONFLICT (word) DO NOTHING: the table after the statement.
UpsertDoNothing(table, row) ==
    IF \E r \in table : r.word = row.word THEN table ELSE table \cup {row}

\* An INSERT that kept the row of a word already stored, which
\* saveWordToDatabase's statement is not.
InsertUnlessStored(table, row) ==
    IF \E r \in table : r.word = row.word THEN table ELSE table \cup {row}

\* INSERT ... ON CONFLICT (word) DO UPDATE SET ...: the table after the statement.
\* The conflict target is the UNIQUE column word, compared as it is stored.
UpsertDoUpdate(table, row) ==
    {r \in table : r.word # row.word} \cup {row}

\* SELECT * FROM words WHERE LOWER(word) = $1.
SelectByLowerWord(table, cleanWord) ==
    {r \in table : ToLowerCase(r.word) = cleanWord}

\* The emotionData getWordData builds from a row. The columns are DECIMAL(5,4);
\* parseFloat of a thousandth is that thousandth.
RowToEmotionData(row) ==
    [vad |-> [valence |-> row.valence, arousal |-> row.arousal,
              dominance |-> row.dominance],
     emotion_probs |-> Probs(EmotionNames,
         <<row.emotion_joy, row.emotion_trust, row.emotion_anticipation,
           row.emotion_surprise, row.emotion_anger, row.emotion_fear,
           row.emotion_sadness, row.emotion_disgust>>),
     sentiment |-> [polarity |-> row.sentiment_polarity,
                    strength |-> row.sentiment_strength]]

(***************************************************************************)
(* getDominantEmotion.                                                     *)
(***************************************************************************)
\* Object.entries(emotionProbs) throws a TypeError on undefined and null.
EntriesThrows(emotionProbs) == emotionProbs = Undefined \/ emotionProbs = Null

RECURSIVE DominantFrom(_, _, _, _)
DominantFrom(emotionProbs, k, maxEmotion, maxConfidence) ==
    IF k > Len(emotionProbs.keys)
    THEN [emotion |-> maxEmotion, confidence |-> maxConfidence]
    ELSE IF emotionProbs.vals[k] > maxConfidence
    THEN DominantFrom(emotionProbs, k + 1, emotionProbs.keys[k], emotionProbs.vals[k])
    ELSE DominantFrom(emotionProbs, k + 1, maxEmotion, maxConfidence)

getDominantEmotion(emotionProbs) == DominantFrom(emotionProbs, 1, "neutral", 0)

(***************************************************************************)
(* The inputs of the model: texts, the curated words table, and what the   *)
(* inference service may answer.                                           *)
(***************************************************************************)
\* The tokens the texts of successive calls are made of: a curated word in
\* mixed case with punctuation, an unknown significant word of the minimal
\* length, a stop word, and a token that is empty once stripped.
RawTokens == { <<"J","o","y","!">>, <<"s","a","d">>, <<"t","h","e">>, <<"-","-">> }

\* The tokens a long text is made of, all unknown words: the significant
\* word, and one word for each reason not to be significant: a stop word and
\* a number of the minimal length, and a shorter word.
LongTokens == { <<"s","a","d">>, <<"t","h","e">>, <<"4","0","4">>, <<"o","k">> }

TokenSeqs(tokens, n) == UNION {[1..k -> tokens] : k \in 1..n}

\* The words table as the migration leaves it: one curated word.
CuratedRow ==
    [word |-> <<"j","o","y">>,
     valence |-> 900, arousal |-> 700, dominance |-> 600,
     emotion_joy |-> 600, emotion_trust |-> 100, emotion_anticipation |-> 100,
     emotion_surprise |-> 100, emotion_anger |-> 25, emotion_fear |-> 25,
     emotion_sadness |-> 25, emotion_disgust |-> 25,
     sentiment_polarity |-> "positive", sentiment_strength |-> 800]

\* JSON.parse(content) for an answer of the shape the prompt asks for,
\* probabilities summing to 1.0.
InferredProfile ==
    [emotion_probs |-> Probs(EmotionNames, <<0, 0, 0, 0, 0, 300, 700, 0>>),
     vad |-> [valence |-> 200, arousal |-> 600, dominance |-> 300],
     sentiment |-> [polarity |-> "negative", strength |-> 700]]

\* Another answer for the same word: DeepSeek need not answer twice alike.
\* Only concurrent requests are given it (SpecConcurrent).
RevisedProfile ==
    [emotion_probs |-> Probs(EmotionNames, <<50, 50, 50, 50, 100, 200, 450, 50>>),
     vad |-> [valence |-> 300, arousal |-> 500, dominance |-> 400],
     sentiment |-> [polarity |-> "negative", strength |-> 600]]

\* Profiles a process that has served requests holds in its cache: the
\* curated row once read, and answers DeepSeek gave for other words. The
\* answers are whatever JSON.parse made of them (line 440), so their
\* probabilities and the order of their keys are DeepSeek's.
SampleProfile(keys, vals, polarity) ==
    [emotion_probs |-> Probs(keys, vals),
     vad |-> [valence |-> 500, arousal |-> 500, dominance |-> 500],
     sentiment |-> [polarity |-> polarity, strength |-> 500]]

\* The curated profile with joy and trust exchanged.
MirrorProfile ==
    SampleProfile(EmotionNames, <<100, 600, 100, 100, 25, 25, 25, 25>>, "positive")
\* The largest probability is exactly 0.5.
HalfProfile ==
    SampleProfile(EmotionNames, <<500, 100, 100, 100, 50, 50, 50, 50>>, "positive")
\* The largest probability is exactly 0.3.
ThreeTenthsProfile ==
    SampleProfile(EmotionNames, <<300, 100, 100, 100, 100, 100, 100, 100>>, "neutral")
\* The largest probability is between 0.25 and 0.3.
LowProfile ==
    SampleProfile(EmotionNames, <<280, 120, 100, 100, 100, 100, 100, 100>>, "neutral")
\* The largest probability is exactly 0.25.
QuarterProfile ==
    SampleProfile(EmotionNames, <<250, 250, 250, 250, 0, 0, 0, 0>>, "positive")
\* An answer whose JSON object lists trust before joy, the two being equal.
ReorderedKeys ==
    <<"trust", "joy", "anticipation", "surprise", "anger", "fear", "sadness",
      "disgust">>
ReorderedProfile ==
    SampleProfile(ReorderedKeys, <<400, 400, 50, 50, 25, 25, 25, 25>>, "positive")

\* The words of such a cache, each with its profile.
SampleWords ==
    << <<CuratedRow.word, RowToEmotionData(CuratedRow)>>,
       << <<"a","l","l","y">>, MirrorProfile>>,
       << <<"s","a","d">>, InferredProfile>>,
       << <<"g","l","a","d">>, HalfProfile>>,
       << <<"c","a","l","m">>, ThreeTenthsProfile>>,
       << <<"m","i","l","d">>, LowProfile>>,
       << <<"f","l","a","t">>, QuarterProfile>>,
       << <<"t","o","r","n">>, ReorderedProfile>> >>

SampleCache ==
    [w \in {SampleWords[k][1] : k \in DOMAIN SampleWords} |->
        SampleWords[CHOOSE k \in DOMAIN SampleWords : SampleWords[k][1] = w][2]]

\* The table of that process: the curated row and a row for every answer.
SampleTable ==
    {CuratedRow} \cup
    {InsertedRow(SampleWords[k][1], SampleWords[k][2]) :
        k \in DOMAIN SampleWords \ {1}}

\* The cached words, and one word neither the cache nor the table has.
SampleTokens == DOMAIN SampleCache \cup { <<"o","d","d">> }

\* An answer that parses as JSON and has none of the three properties, such
\* as {} or a number.
ShapelessAnswer ==
    [emotion_probs |-> Undefined, vad |-> Undefined, sentiment |-> Undefined]

\* What analyzeWordWithDeepSeek returns: null (no key, a network error, a
\* non-2xx status, a body JSON.parse rejects, the JSON value null), or
\* whatever JSON.parse made of the answer.
DeepSeekAnswers == {Null, InferredProfile, ShapelessAnswer}

(***************************************************************************)
(* State.                                                                  *)
(*   wordCache       this.wordCache, a Map from clean word to emotionData  *)
(*   words_table     the rows of the table words                           *)
(*   deepseekApiKey  whether DEEPSEEK_API_KEY is set                       *)
(*   frame[c]        the locals of analyzeText call c and where it stands  *)
(*   io[c]           what call c has asked of the table and of DeepSeek    *)
(*                   and what saveWordToDatabase returned, in order, with  *)
(*                   the cache and table the call started from             *)
(*   tokensUsed      the tokens of all texts analysed so far               *)
(*   failedWords     the words for which DeepSeek has returned null so far *)
(*   sessions        the rows of the table sessions, by id                 *)
(*   session_messages  the rows of the table session_messages, in the      *)
(*                   order of their created_at                             *)
(*   profiles        the rows of the table profiles, by id                 *)
(*   request[c]      the locals of session request c and where it stands   *)
(*   now             the clock, in whole seconds                           *)
(*   sessionLog      the UPDATE statements the end requests have executed  *)
(***************************************************************************)
Calls == {1, 2}

IdleFrame ==
    [pc |-> "idle", text |-> <<>>, words |-> <<>>, cleanWords |-> <<>>, i |-> 0,
     wordAnalyses |-> <<>>, unknownWords |-> <<>>,
     wordsFromDatabase |-> 0, wordsFromCache |-> 0, wordsFromDeepSeek |-> 0,
     wordsNotFound |-> 0,
     batch |-> <<>>, j |-> 0, deepseekResult |-> Null,
     result |-> Null]

NoIo == [events |-> <<>>, cacheAtStart |-> <<>>, tableAtStart |-> {}]

Event(op, word) == [op |-> op, word |-> word]

\* Map.prototype.has / get / set.
CacheHas(cache, key) == key \in DOMAIN cache
CacheSet(cache, key, value) ==
    [k \in DOMAIN cache \cup {key} |-> IF k = key THEN value ELSE cache[k]]

\* A session request that is not in progress.
IdleRequest ==
    [pc |-> "idle", kind |-> "none", sessionId |-> "none", session |-> Null,
     messages |-> <<>>, analysis |-> Null, summary |-> Null, dbStats |-> Null,
     response |-> Null]

\* A row of profiles as INSERT INTO profiles leaves it (the column defaults
\* of lines 457-461). DECIMAL(5,4) columns are in ten-thousandths: 0.5.
NewProfile ==
    [total_sessions |-> 0, total_messages |-> 0,
     avg_valence |-> 5000, avg_arousal |-> 5000,
     dominant_emotion |-> "neutral"]

ProfileIds == {"profile_1"}

\* The session tables after /setup-database and POST /v1/profiles: one
\* profile, no session, no message.
SessionInit ==
    /\ sessions = <<>>
    /\ session_messages = <<>>
    /\ profiles = [p \in ProfileIds |-> NewProfile]
    /\ request = [c \in Calls |-> IdleRequest]
    /\ now = 0
    /\ sessionLog = <<>>

\* The tokens of API_TOKEN_1 and API_TOKEN_2, a token that is not
\* configured, and the token of a request without one (!token, line 57).
BusyToken == "token-1"
QuietToken == "token-2"
GuessedToken == "guess"
NoToken == ""
Requesters == {BusyToken, QuietToken, GuessedToken, NoToken}

\* The migration script between two runs: the runs made so far, and for
\* each the errors it counted and the table it left.
IdleMigration ==
    [pc |-> "idle", k |-> 0, insertedWords |-> 0, skippedWords |-> 0, errors |-> 0,
     runs |-> <<>>]

\* CREATE TABLE IF NOT EXISTS api_processing_logs, lines 89-107: no row, and
\* no INSERT in flight.
LogInit ==
    /\ logWrites = <<>>
    /\ api_processing_logs = <<>>

\* The migration script is not running, and the ApiAuthenticator is as
\* constructed (src/api/auth-middleware.js lines 7-11): no request counted.
StandaloneInit ==
    /\ migration = IdleMigration
    /\ rateLimits = <<>>
    /\ authClock = 0
    /\ authLog = [t \in Requesters |-> <<>>]

Init ==
    /\ wordCache = <<>>
    /\ words_table = {CuratedRow}
    /\ deepseekApiKey \in BOOLEAN
    /\ frame = [c \in Calls |-> IdleFrame]
    /\ io = [c \in Calls |-> NoIo]
    /\ tokensUsed = 0
    /\ failedWords = {}
    /\ SessionInit
    /\ LogInit
    /\ StandaloneInit

(***************************************************************************)
(* analyzeText, lines 196-250: one word of the text.                       *)
(***************************************************************************)
\* Reading emotionData.emotion_probs entries, emotionData.vad.valence or
\* emotionData.sentiment.polarity throws a TypeError.
ReadThrows(emotionData) ==
    \/ EntriesThrows(emotionData.emotion_probs)
    \/ emotionData.vad = Undefined
    \/ emotionData.sentiment = Undefined

\* The entry analyzeText pushes for a word getWordData found.
FoundAnalysis(originalWord, cleanWord, emotionData, source) ==
    [word |-> originalWord,
     clean_word |-> cleanWord,
     emotion |-> getDominantEmotion(emotionData.emotion_probs).emotion,
     confidence |-> getDominantEmotion(emotionData.emotion_probs).confidence,
     valence |-> emotionData.vad.valence,
     arousal |-> emotionData.vad.arousal,
     sentiment |-> emotionData.sentiment.polarity,
     found |-> TRUE,
     source |-> source,
     emotion_probs |-> emotionData.emotion_probs]

NeutralConfidence == 125
NeutralVad == 500

\* The entry analyzeText pushes for a word getWordData did not find.
NotFoundAnalysis(originalWord, cleanWord) ==
    [word |-> originalWord,
     clean_word |-> cleanWord,
     emotion |-> "neutral",
     confidence |-> NeutralConfidence,
     valence |-> NeutralVad,
     arousal |-> NeutralVad,
     sentiment |-> "neutral",
     found |-> FALSE,
     source |-> "not_found",
     emotion_probs |-> Undefined]

\* Lines 205-227: the frame after getWordData returned emotionData.
AfterFound(f, emotionData, source) ==
    LET counted == IF source = "memory_cache"
                   THEN [f EXCEPT !.wordsFromCache = @ + 1]
                   ELSE [f EXCEPT !.wordsFromDatabase = @ + 1]
    IN  IF ReadThrows(emotionData)
        THEN [counted EXCEPT !.pc = "threw"]
        ELSE [counted EXCEPT
                !.pc = "scan",
                !.wordAnalyses = Append(@, FoundAnalysis(f.words[f.i],
                                     f.cleanWords[f.i], emotionData, source)),
                !.i = @ + 1]

\* Lines 228-249: the frame after getWordData returned no data.
AfterNotFound(f, source) ==
    [f EXCEPT
        !.pc = "scan",
        !.wordsNotFound = @ + 1,
        !.unknownWords = Append(@, [word |-> f.words[f.i],
                                    clean_word |-> f.cleanWords[f.i],
                                    index |-> f.i - 1]),
        !.wordAnalyses = Append(@, NotFoundAnalysis(f.words[f.i], f.cleanWords[f.i])),
        !.i = @ + 1]

(***************************************************************************)
(* analyzeText, lines 252-259: the unknown words sent to DeepSeek.         *)
(***************************************************************************)
MaxDeepSeekWords == 3

IsSignificantUnknown(w) == isEmotionallySignificant(w.clean_word)

Slice(s, from, to) == SubSeq(s, from + 1, IF to < Len(s) THEN to ELSE Len(s))

wordsToProcess(unknownWords) ==
    LET emotionalWords == SelectSeq(unknownWords, IsSignificantUnknown)
    IN  IF Len(emotionalWords) > 0 THEN emotionalWords ELSE Slice(unknownWords, 0, 1)

\* DeepSeekBatch without the slice(0, 3) of line 259.
DeepSeekBatchUnsliced(unknownWords) == wordsToProcess(unknownWords)

DeepSeekBatch(unknownWords) == Slice(wordsToProcess(unknownWords), 0, MaxDeepSeekWords)

\* Lines 278-293: wordAnalyses after a DeepSeek result for cleanWord. findIndex
\* gives the first entry of the word; a throwing read leaves the list as it was
\* (the catch of line 297).
FindIndex(wordAnalyses, cleanWord) ==
    IF \E k \in DOMAIN wordAnalyses : wordAnalyses[k].clean_word = cleanWord
    THEN CHOOSE k \in DOMAIN wordAnalyses :
            /\ wordAnalyses[k].clean_word = cleanWord
            /\ \A m \in 1..(k - 1) : wordAnalyses[m].clean_word # cleanWord
    ELSE 0

UpdateWordAnalysis(wordAnalyses, cleanWord, deepseekResult) ==
    LET wordIndex == FindIndex(wordAnalyses, cleanWord)
    IN  IF wordIndex = 0 \/ ReadThrows(deepseekResult) THEN wordAnalyses
        ELSE [wordAnalyses EXCEPT ![wordIndex] =
                FoundAnalysis(@.word, @.clean_word, deepseekResult, "deepseek")]

(***************************************************************************)
(* calculateOverallEmotion. Its results are quotients: Ratio(n, d) is the  *)
(* number n / d.                                                           *)
(***************************************************************************)
Ratio(n, d) == [num |-> n, den |-> d]

ConfidenceThreshold == 250
HighConfidence == 500
MidConfidence == 300

\* The filter with >= 0.25 for > 0.25.
IsConfidentAtThreshold(w) == w.found /\ w.confidence >= ConfidenceThreshold

\* The filter without its confidence test.
IsConfidentIfFound(w) == w.found

IsConfident(w) == w.found /\ w.confidence > ConfidenceThreshold

\* The factor with >= 0.5 and >= 0.3 for > 0.5 and > 0.3.
TwiceAmpInclusive(confidence) ==
    IF confidence >= HighConfidence THEN 6
    ELSE IF confidence >= MidConfidence THEN 5
    ELSE 4

\* Twice the amplification factor: 3.0, 2.5 or 2.0.
TwiceAmp(confidence) ==
    IF confidence > HighConfidence THEN 6
    ELSE IF confidence > MidConfidence THEN 5
    ELSE 4

\* probs[emotion] || 0.125, with probs = wordData.emotion_probs || {}.
BaseProb(wordData, emotion) ==
    IF ~HasKey(wordData.emotion_probs, emotion) THEN DefaultProb
    ELSE IF ValueOf(wordData.emotion_probs, emotion) = 0 THEN DefaultProb
    ELSE ValueOf(wordData.emotion_probs, emotion)

\* Twice what one word adds to emotionWeights[emotion].
TwiceContribution(wordData, emotion) ==
    IF emotion = wordData.emotion
    THEN BaseProb(wordData, emotion) * TwiceAmp(wordData.confidence)
    ELSE BaseProb(wordData, emotion) * 2

RECURSIVE TwiceWeight(_, _)
TwiceWeight(confidentWords, emotion) ==
    IF Len(confidentWords) = 0 THEN 0
    ELSE TwiceContribution(Head(confidentWords), emotion)
            + TwiceWeight(Tail(confidentWords), emotion)

\* x > y for quotients with positive denominators.
RatioGreater(x, y) == x.num * y.den > y.num * x.den

\* A reduce that never leaves its first key.
ReduceKeepFirst(emotions, a, k) == a

\* Object.keys(emotions).reduce((a, b) => emotions[a] > emotions[b] ? a : b).
RECURSIVE ReduceMax(_, _, _)
ReduceMax(emotions, a, k) ==
    IF k > Len(emotions) THEN a
    ELSE ReduceMax(emotions, IF RatioGreater(emotions[a], emotions[k]) THEN a ELSE k,
                   k + 1)

RECURSIVE SumField(_, _)
SumField(ws, field) ==
    IF Len(ws) = 0 THEN 0 ELSE Head(ws)[field] + SumField(Tail(ws), field)

\* A count of the positive labels that takes the neutral ones with them.
IsPositiveOrNeutral(w) == w.sentiment \in {"positive", "neutral"}

IsPositive(w) == w.sentiment = "positive"
IsNegative(w) == w.sentiment = "negative"

NeutralResult(wordAnalyses) ==
    [overall_emotion |-> "neutral",
     confidence |-> Ratio(125, 1000),
     emotions |-> Probs(EmotionNames, [k \in 1..8 |-> Ratio(125, 1000)]),
     word_analysis |-> wordAnalyses,
     word_count |-> Len(wordAnalyses),
     analyzed_words |-> 0,
     coverage |-> Ratio(0, 1),
     vad |-> [valence |-> Ratio(500, 1000), arousal |-> Ratio(500, 1000),
              dominance |-> Ratio(500, 1000)],
     sentiment |-> [polarity |-> "neutral", strength |-> Ratio(500, 1000)]]

calculateOverallEmotion(wordAnalyses) ==
    LET confidentWords == SelectSeq(wordAnalyses, IsConfident)
        weights == [k \in 1..8 |-> TwiceWeight(confidentWords, EmotionNames[k])]
        total == SeqSum(weights)
        emotions == [k \in 1..8 |-> IF total > 0 THEN Ratio(weights[k], total)
                                     ELSE Ratio(125, 1000)]
        dominant == ReduceMax(emotions, 1, 2)
        pos == Len(SelectSeq(confidentWords, IsPositive))
        neg == Len(SelectSeq(confidentWords, IsNegative))
    IN  IF Len(confidentWords) = 0 THEN NeutralResult(wordAnalyses)
        ELSE
        [overall_emotion |-> EmotionNames[dominant],
         confidence |-> emotions[dominant],
         emotions |-> Probs(EmotionNames, emotions),
         word_analysis |-> wordAnalyses,
         word_count |-> Len(wordAnalyses),
         analyzed_words |-> Len(confidentWords),
         coverage |-> Ratio(Len(confidentWords), Len(wordAnalyses)),
         vad |-> [valence |-> Ratio(SumField(confidentWords, "valence"),
                                    Len(confidentWords) * 1000),
                  arousal |-> Ratio(SumField(confidentWords, "arousal"),
                                    Len(confidentWords) * 1000),
                  dominance |-> Ratio(500, 1000)],
         sentiment |-> [polarity |-> IF pos > neg THEN "positive"
                                     ELSE IF neg > pos THEN "negative"
                                     ELSE "neutral",
                        strength |-> Ratio(500, 1000)]]

\* Lines 305-321: the result analyzeText returns, with the counters of its
\* debug record.
Result(f) ==
    [analysis |-> calculateOverallEmotion(f.wordAnalyses),
     debug |-> [deepseek_available |-> deepseekApiKey,
                words_from_database |-> f.wordsFromDatabase,
                words_from_cache |-> f.wordsFromCache,
                words_from_deepseek |-> f.wordsFromDeepSeek,
                words_not_found |-> f.wordsNotFound,
                total_words_processed |->
                    Len(SelectSeq(f.cleanWords, LAMBDA w : Len(w) > 0))]]

(***************************************************************************)
(* The steps of one analyzeText call. Each await of the code ends a step.  *)
(***************************************************************************)
Say(h, op, word) == [h EXCEPT !.events = Append(@, Event(op, word))]

\* analyzeText is called with a text (lines 169-194). The count query of
\* lines 179-184 only feeds the debug log and is left out.
StartCall(c, tokens, maxLen) ==
    /\ frame[c].pc = "idle"
    /\ \E ts \in TokenSeqs(tokens, maxLen) :
          LET text == JoinTokens(ts)
              words == SplitWhitespace(ToLowerCase(text))
          IN  /\ frame' = [frame EXCEPT ![c] =
                    [IdleFrame EXCEPT
                        !.pc = "scan", !.text = text, !.words = words,
                        !.cleanWords = [k \in DOMAIN words |-> StripNonAlnum(words[k])],
                        !.i = 1]]
              /\ tokensUsed' = tokensUsed + Len(ts)
    /\ io' = [io EXCEPT ![c] = [events |-> <<>>, cacheAtStart |-> wordCache,
                                tableAtStart |-> words_table]]
    /\ UNCHANGED <<wordCache, words_table, deepseekApiKey, failedWords, sessionVars, logVars, standaloneVars>>

\* The same lines when an entry point calls analyzeText(text) with the text
\* of a request.
CallAnalyzeText(c, text) ==
    LET words == SplitWhitespace(ToLowerCase(text))
    IN  /\ frame' = [frame EXCEPT ![c] =
              [IdleFrame EXCEPT
                  !.pc = "scan", !.text = text, !.words = words,
                  !.cleanWords = [k \in DOMAIN words |-> StripNonAlnum(words[k])],
                  !.i = 1]]
        /\ tokensUsed' = tokensUsed + Len(words)
        /\ io' = [io EXCEPT ![c] = [events |-> <<>>, cacheAtStart |-> wordCache,
                                    tableAtStart |-> words_table]]

\* A text within what is left of the token budget.
AnalyzeText(c) == StartCall(c, RawTokens, MaxTokens - tokensUsed)

\* A text of a request that may overlap another.
AnalyzeConcurrent(c) == StartCall(c, RawTokens, MaxConcurrentTokens - tokensUsed)

\* The process's first text, a long one.
AnalyzeLongText(c) == tokensUsed = 0 /\ StartCall(c, LongTokens, MaxLongText)

\* SkipEmpty without the continue of line 201: the empty token is entered
\* in the list as a word that was not found.
SkipEmptyCounted(c) ==
    /\ frame[c].pc = "scan"
    /\ frame[c].i <= Len(frame[c].cleanWords)
    /\ Len(frame[c].cleanWords[frame[c].i]) < 1
    /\ frame' = [frame EXCEPT ![c] = AfterNotFound(frame[c], "not_found")]
    /\ UNCHANGED <<wordCache, words_table, deepseekApiKey, io, tokensUsed, failedWords, sessionVars, logVars, standaloneVars>>

\* Line 201: a token that is empty once stripped is skipped.
SkipEmpty(c) ==
    /\ frame[c].pc = "scan"
    /\ frame[c].i <= Len(frame[c].cleanWords)
    /\ Len(frame[c].cleanWords[frame[c].i]) < 1
    /\ frame' = [frame EXCEPT ![c].i = @ + 1]
    /\ UNCHANGED <<wordCache, words_table, deepseekApiKey, io, tokensUsed, failedWords, sessionVars, logVars, standaloneVars>>

\* getWordData, lines 119-124: the word is in the cache.
CacheHit(c) ==
    LET f == frame[c]
        cleanWord == ToLowerCase(f.cleanWords[f.i])
    IN  /\ f.pc = "scan"
        /\ f.i <= Len(f.cleanWords)
        /\ Len(f.cleanWords[f.i]) >= 1
        /\ CacheHas(wordCache, cleanWord)
        /\ frame' = [frame EXCEPT ![c] = AfterFound(f, wordCache[cleanWord], "memory_cache")]
        /\ UNCHANGED <<wordCache, words_table, deepseekApiKey, io, tokensUsed, failedWords, sessionVars, logVars, standaloneVars>>

\* CacheMiss without the test of line 119: the query is sent for any word.
CacheMissUnguarded(c) ==
    LET f == frame[c]
        cleanWord == ToLowerCase(f.cleanWords[f.i])
    IN  /\ f.pc = "scan"
        /\ f.i <= Len(f.cleanWords)
        /\ Len(f.cleanWords[f.i]) >= 1
        /\ frame' = [frame EXCEPT ![c].pc = "query"]
        /\ io' = [io EXCEPT ![c] = Say(@, "select", cleanWord)]
        /\ UNCHANGED <<wordCache, words_table, deepseekApiKey, tokensUsed, failedWords, sessionVars, logVars, standaloneVars>>

\* getWordData, lines 126-131: the word is not in the cache; the query is sent.
CacheMiss(c) ==
    LET f == frame[c]
        cleanWord == ToLowerCase(f.cleanWords[f.i])
    IN  /\ f.pc = "scan"
        /\ f.i <= Len(f.cleanWords)
        /\ Len(f.cleanWords[f.i]) >= 1
        /\ ~CacheHas(wordCache, cleanWord)
        /\ frame' = [frame EXCEPT ![c].pc = "query"]
        /\ io' = [io EXCEPT ![c] = Say(@, "select", cleanWord)]
        /\ UNCHANGED <<wordCache, words_table, deepseekApiKey, tokensUsed, failedWords, sessionVars, logVars, standaloneVars>>

\* QueryRow without line 158: the row is returned and not cached.
QueryRowNotCached(c) ==
    LET f == frame[c]
        cleanWord == ToLowerCase(f.cleanWords[f.i])
    IN  /\ f.pc = "query"
        /\ \E row \in SelectByLowerWord(words_table, cleanWord) :
              frame' = [frame EXCEPT ![c] =
                            AfterFound(f, RowToEmotionData(row), "database")]
        /\ UNCHANGED <<wordCache, words_table, deepseekApiKey, io, tokensUsed, failedWords, sessionVars, logVars, standaloneVars>>

\* getWordData, lines 133-159: the query returned a row.
QueryRow(c) ==
    LET f == frame[c]
        cleanWord == ToLowerCase(f.cleanWords[f.i])
    IN  /\ f.pc = "query"
        /\ \E row \in SelectByLowerWord(words_table, cleanWord) :
              /\ wordCache' = CacheSet(wordCache, cleanWord, RowToEmotionData(row))
              /\ frame' = [frame EXCEPT ![c] =
                              AfterFound(f, RowToEmotionData(row), "database")]
        /\ UNCHANGED <<words_table, deepseekApiKey, io, tokensUsed, failedWords, sessionVars, logVars, standaloneVars>>

\* getWordData, line 162: the query returned no row.
QueryEmpty(c) ==
    LET f == frame[c]
        cleanWord == ToLowerCase(f.cleanWords[f.i])
    IN  /\ f.pc = "query"
        /\ SelectByLowerWord(words_table, cleanWord) = {}
        /\ frame' = [frame EXCEPT ![c] = AfterNotFound(f, "not_found")]
        /\ UNCHANGED <<wordCache, words_table, deepseekApiKey, io, tokensUsed, failedWords, sessionVars, logVars, standaloneVars>>

\* getWordData, lines 163-166: the query failed.
QueryError(c) ==
    LET f == frame[c]
    IN  /\ f.pc = "query"
        /\ frame' = [frame EXCEPT ![c] = AfterNotFound(f, "db_error")]
        /\ UNCHANGED <<wordCache, words_table, deepseekApiKey, io, tokensUsed, failedWords, sessionVars, logVars, standaloneVars>>

\* SelectUnknown without the test of this.deepseekApiKey in line 252.
SelectUnknownIgnoringKey(c) ==
    LET f == frame[c]
    IN  /\ f.pc = "scan"
        /\ f.i > Len(f.cleanWords)
        /\ frame' = [frame EXCEPT ![c] =
              IF Len(f.unknownWords) > 0
              THEN [f EXCEPT !.pc = "infer", !.batch = DeepSeekBatch(f.unknownWords),
                             !.j = 1]
              ELSE [f EXCEPT !.pc = "finish"]]
        /\ UNCHANGED <<wordCache, words_table, deepseekApiKey, io, tokensUsed, failedWords, sessionVars, logVars, standaloneVars>>

\* Lines 252-259 and 301-303: the loop over the words is over.
SelectUnknown(c) ==
    LET f == frame[c]
    IN  /\ f.pc = "scan"
        /\ f.i > Len(f.cleanWords)
        /\ frame' = [frame EXCEPT ![c] =
              IF Len(f.unknownWords) > 0 /\ deepseekApiKey
              THEN [f EXCEPT !.pc = "infer", !.batch = DeepSeekBatch(f.unknownWords),
                             !.j = 1]
              ELSE [f EXCEPT !.pc = "finish"]]
        /\ UNCHANGED <<wordCache, words_table, deepseekApiKey, io, tokensUsed, failedWords, sessionVars, logVars, standaloneVars>>

\* CallDeepSeek as a fan-out: every word left in the batch is sent at once.
CallDeepSeekAll(c) ==
    LET f == frame[c]
        RECURSIVE SayAll(_, _)
        SayAll(h, k) == IF k > Len(f.batch) THEN h
                        ELSE SayAll(Say(h, "deepseek", f.batch[k].clean_word), k + 1)
    IN  /\ f.pc = "infer"
        /\ f.j <= Len(f.batch)
        /\ deepseekApiKey
        /\ frame' = [frame EXCEPT ![c].pc = "fetch"]
        /\ io' = [io EXCEPT ![c] = SayAll(@, f.j)]
        /\ UNCHANGED <<wordCache, words_table, deepseekApiKey, tokensUsed, failedWords, sessionVars, logVars, standaloneVars>>

\* Lines 259-262 and 410-434: the next word of the batch is sent to DeepSeek.
CallDeepSeek(c) ==
    LET f == frame[c]
    IN  /\ f.pc = "infer"
        /\ f.j <= Len(f.batch)
        /\ deepseekApiKey
        /\ frame' = [frame EXCEPT ![c].pc = "fetch"]
        /\ io' = [io EXCEPT ![c] = Say(@, "deepseek", f.batch[f.j].clean_word)]
        /\ UNCHANGED <<wordCache, words_table, deepseekApiKey, tokensUsed, failedWords, sessionVars, logVars, standaloneVars>>

\* DeepSeekNull that remembers the failure: the word is cached as neutral.
DeepSeekNullCachesNeutral(c) ==
    LET f == frame[c]
    IN  /\ f.pc = "fetch"
        /\ frame' = [frame EXCEPT ![c].pc = "infer", ![c].j = @ + 1,
                                  ![c].deepseekResult = Null]
        /\ wordCache' = CacheSet(wordCache, f.batch[f.j].clean_word,
                             [InferredProfile EXCEPT
                                 !.emotion_probs.vals = [k \in 1..8 |-> DefaultProb]])
        /\ failedWords' = failedWords \cup {f.batch[f.j].clean_word}
        /\ UNCHANGED <<words_table, deepseekApiKey, io, tokensUsed, sessionVars, logVars, standaloneVars>>

\* Lines 436-446 and 294-296: analyzeWordWithDeepSeek returns null.
DeepSeekNull(c) ==
    LET f == frame[c]
    IN  /\ f.pc = "fetch"
        /\ frame' = [frame EXCEPT ![c].pc = "infer", ![c].j = @ + 1,
                                  ![c].deepseekResult = Null]
        /\ failedWords' = failedWords \cup {f.batch[f.j].clean_word}
        /\ UNCHANGED <<wordCache, words_table, deepseekApiKey, io, tokensUsed, sessionVars, logVars, standaloneVars>>

\* DeepSeekData without line 269: the INSERT is sent and nothing is cached.
DeepSeekDataNotCached(c) ==
    LET f == frame[c]
        cleanWord == f.batch[f.j].clean_word
    IN  /\ f.pc = "fetch"
        /\ \E deepseekResult \in DeepSeekAnswers \ {Null} :
              frame' = [frame EXCEPT ![c].pc = "save",
                                     ![c].wordsFromDeepSeek = @ + 1,
                                     ![c].deepseekResult = deepseekResult]
        /\ io' = [io EXCEPT ![c] = Say(@, "insert", cleanWord)]
        /\ UNCHANGED <<wordCache, words_table, deepseekApiKey, tokensUsed, failedWords, sessionVars, logVars, standaloneVars>>

\* Lines 264-272: analyzeWordWithDeepSeek returns a value; it is cached and
\* the INSERT is sent.
DeepSeekData(c) ==
    LET f == frame[c]
        cleanWord == f.batch[f.j].clean_word
    IN  /\ f.pc = "fetch"
        /\ \E deepseekResult \in DeepSeekAnswers \ {Null} :
              /\ wordCache' = CacheSet(wordCache, cleanWord, deepseekResult)
              /\ frame' = [frame EXCEPT ![c].pc = "save",
                                        ![c].wordsFromDeepSeek = @ + 1,
                                        ![c].deepseekResult = deepseekResult]
        /\ io' = [io EXCEPT ![c] = Say(@, "insert", cleanWord)]
        /\ UNCHANGED <<words_table, deepseekApiKey, tokensUsed, failedWords, sessionVars, logVars, standaloneVars>>

\* Lines 264-272 again, for DeepSeek's other answer.
DeepSeekRevised(c) ==
    LET f == frame[c]
        cleanWord == f.batch[f.j].clean_word
    IN  /\ f.pc = "fetch"
        /\ wordCache' = CacheSet(wordCache, cleanWord, RevisedProfile)
        /\ frame' = [frame EXCEPT ![c].pc = "save",
                                  ![c].wordsFromDeepSeek = @ + 1,
                                  ![c].deepseekResult = RevisedProfile]
        /\ io' = [io EXCEPT ![c] = Say(@, "insert", cleanWord)]
        /\ UNCHANGED <<words_table, deepseekApiKey, tokensUsed, failedWords, sessionVars, logVars, standaloneVars>>

\* Lines 278-300: after saveWordToDatabase, the word's analysis is updated.
AfterSave(f) ==
    [f EXCEPT !.pc = "infer", !.j = @ + 1,
              !.wordAnalyses = UpdateWordAnalysis(@, f.batch[f.j].clean_word,
                                                  f.deepseekResult)]

\* saveWordToDatabase, lines 331-360: the INSERT succeeded.
SaveDone(c) ==
    LET f == frame[c]
    IN  /\ f.pc = "save"
        /\ words_table' = UpsertDoUpdate(words_table,
                              InsertedRow(f.batch[f.j].clean_word, f.deepseekResult))
        /\ frame' = [frame EXCEPT ![c] = AfterSave(f)]
        /\ io' = [io EXCEPT ![c] = Say(@, "saved", f.batch[f.j].clean_word)]
        /\ UNCHANGED <<wordCache, deepseekApiKey, tokensUsed, failedWords, sessionVars, logVars, standaloneVars>>

\* saveWordToDatabase, lines 361-364: the INSERT failed.
SaveFailed(c) ==
    LET f == frame[c]
    IN  /\ f.pc = "save"
        /\ frame' = [frame EXCEPT ![c] = AfterSave(f)]
        /\ io' = [io EXCEPT ![c] = Say(@, "not_saved", f.batch[f.j].clean_word)]
        /\ UNCHANGED <<wordCache, words_table, deepseekApiKey, tokensUsed, failedWords, sessionVars, logVars, standaloneVars>>

\* Lines 300-306: the batch is done; the result is computed.
BatchDone(c) ==
    LET f == frame[c]
    IN  /\ f.pc = "infer"
        /\ f.j > Len(f.batch)
        /\ frame' = [frame EXCEPT ![c].pc = "finish"]
        /\ UNCHANGED <<wordCache, words_table, deepseekApiKey, io, tokensUsed, failedWords, sessionVars, logVars, standaloneVars>>

\* Lines 305-326: the result is computed, the log INSERT is sent and not
\* awaited, and the result is returned.
FinishResult(c) ==
    LET f == frame[c]
    IN  /\ f.pc = "finish"
        /\ frame' = [frame EXCEPT ![c].pc = "done",
                                  ![c].result = Result(f)]
        /\ io' = [io EXCEPT ![c] = Say(@, "log", f.text)]
        /\ UNCHANGED <<wordCache, words_table, deepseekApiKey, tokensUsed, failedWords, sessionVars, standaloneVars>>

\* The engine never reads api_processing_logs: where the table is not
\* followed, the INSERT is the log event of the call and nothing more.
Finish(c) == FinishResult(c) /\ UNCHANGED logVars

\* logProcessing, lines 369-380: the values of the INSERT.
LogRow(f) ==
    LET result == Result(f).analysis
    IN  [input_text |-> f.text,
         word_count |-> result.word_count,
         analyzed_words |-> result.analyzed_words,
         overall_emotion |-> result.overall_emotion,
         confidence |-> result.confidence,
         deepseek_calls |-> f.wordsFromDeepSeek,
         new_words_added |-> f.wordsFromDeepSeek]

\* Line 324 with the table followed: logProcessing is called and its promise
\* is left to settle by itself.
FinishLogged(c) ==
    /\ FinishResult(c)
    /\ logWrites' = Append(logWrites, [call |-> c, row |-> LogRow(frame[c])])
    /\ UNCHANGED api_processing_logs

RemoveAt(s, k) == SubSeq(s, 1, k - 1) \o SubSeq(s, k + 1, Len(s))

\* Lines 369-380: an INSERT in flight is executed.
LogSaved ==
    \E k \in DOMAIN logWrites :
        /\ api_processing_logs' = Append(api_processing_logs, logWrites[k].row)
        /\ logWrites' = RemoveAt(logWrites, k)
        /\ UNCHANGED <<engineVars, sessionVars, standaloneVars>>

\* LogFailed without the catch of lines 381-383 and that of line 324: the
\* rejection reaches the call.
LogFailedThrows ==
    \E k \in DOMAIN logWrites :
        /\ logWrites' = RemoveAt(logWrites, k)
        /\ frame' = [frame EXCEPT ![logWrites[k].call].pc = "threw"]
        /\ UNCHANGED <<wordCache, words_table, deepseekApiKey, io, tokensUsed, failedWords,
                       api_processing_logs, sessionVars, standaloneVars>>

\* Lines 381-383 and the catch of line 324: an INSERT in flight is rejected,
\* and the rejection is dropped.
LogFailed ==
    \E k \in DOMAIN logWrites :
        /\ logWrites' = RemoveAt(logWrites, k)
        /\ UNCHANGED <<engineVars, api_processing_logs, sessionVars, standaloneVars>>

\* The caller has the result, or the rejection, and the call is over.
Return(c) ==
    /\ frame[c].pc \in {"done", "threw"}
    /\ frame' = [frame EXCEPT ![c] = IdleFrame]
    /\ io' = [io EXCEPT ![c] = NoIo]
    /\ UNCHANGED <<wordCache, words_table, deepseekApiKey, tokensUsed, failedWords, sessionVars, logVars, standaloneVars>>

\* The steps of a call on words that are in neither the cache nor the table.
StepUnknown(c) ==
    \/ CacheMiss(c)
    \/ QueryEmpty(c)
    \/ QueryError(c)
    \/ SelectUnknown(c)
    \/ CallDeepSeek(c)
    \/ DeepSeekNull(c)
    \/ DeepSeekData(c)
    \/ SaveDone(c)
    \/ SaveFailed(c)
    \/ BatchDone(c)
    \/ Finish(c)
    \/ Return(c)

Step(c) ==
    \/ SkipEmpty(c)
    \/ CacheHit(c)
    \/ QueryRow(c)
    \/ StepUnknown(c)

\* Requests served one after the other.
Next == AnalyzeText(1) \/ Step(1)

Spec == Init /\ [][Next]_vars

\* The process is restarted, as on a deployment: a new EmotionEngine is
\* constructed (lines 8-31) with an empty wordCache, and the calls in progress
\* are lost. The words table is the database's and stays.
Restart ==
    /\ wordCache # <<>> \/ \E c \in Calls : frame[c].pc # "idle"
    /\ wordCache' = <<>>
    /\ frame' = [c \in Calls |-> IdleFrame]
    /\ io' = [c \in Calls |-> NoIo]
    /\ UNCHANGED <<words_table, deepseekApiKey, tokensUsed, failedWords, sessionVars, logVars, standaloneVars>>

\* Requests served one after the other by a process that may be restarted.
NextRestart == Next \/ Restart

SpecRestart == Init /\ [][NextRestart]_vars

\* Requests served concurrently: the steps of two calls interleave at their
\* awaits.
NextConcurrent == \E c \in Calls : AnalyzeConcurrent(c) \/ Step(c) \/ DeepSeekRevised(c)

SpecConcurrent == Init /\ [][NextConcurrent]_vars

\* A text within what is left of the token budget of a process whose log
\* writes are followed.
AnalyzeLogged(c) == StartCall(c, RawTokens, MaxLogTokens - tokensUsed)

\* Requests served one after the other, with the log INSERTs they leave in
\* flight.
NextLog ==
    \/ AnalyzeLogged(1)
    \/ SkipEmpty(1)
    \/ CacheHit(1)
    \/ QueryRow(1)
    \/ CacheMiss(1)
    \/ QueryEmpty(1)
    \/ QueryError(1)
    \/ SelectUnknown(1)
    \/ CallDeepSeek(1)
    \/ DeepSeekNull(1)
    \/ DeepSeekData(1)
    \/ SaveDone(1)
    \/ SaveFailed(1)
    \/ BatchDone(1)
    \/ FinishLogged(1)
    \/ Return(1)
    \/ LogSaved
    \/ LogFailed

SpecLog == Init /\ [][NextLog]_vars

\* A text of a request served by a process one of whose inference calls
\* hangs.
AnalyzeHung(c) == StartCall(c, RawTokens, MaxHungTokens - tokensUsed)

\* The steps of a call whose fetch (line 422) never settles: there is no
\* timeout on it, so once the call has sent a word to DeepSeek none of its
\* steps is left.
StepHung(c) ==
    \/ SkipEmpty(c)
    \/ CacheHit(c)
    \/ QueryRow(c)
    \/ CacheMiss(c)
    \/ QueryEmpty(c)
    \/ QueryError(c)
    \/ SelectUnknown(c)
    \/ CallDeepSeek(c)
    \/ Finish(c)
    \/ Return(c)

\* Two overlapping requests; the inference calls of the first never return,
\* the I/O of the second completes.
NextHung ==
    \/ AnalyzeHung(1)
    \/ StepHung(1)
    \/ AnalyzeHung(2)
    \/ Step(2)

InitHung == Init /\ deepseekApiKey = TRUE

\* The steps of a call that follow one of its awaits, or hand the result to
\* the caller.
Settles(c) ==
    \/ SkipEmpty(c)
    \/ CacheHit(c)
    \/ QueryRow(c)
    \/ CacheMiss(c)
    \/ QueryEmpty(c)
    \/ QueryError(c)
    \/ SelectUnknown(c)
    \/ CallDeepSeek(c)
    \/ DeepSeekNull(c)
    \/ DeepSeekData(c)
    \/ SaveDone(c)
    \/ SaveFailed(c)
    \/ BatchDone(c)
    \/ Return(c)

\* The I/O of the second call completes: every await it reaches settles,
\* and the synchronous lines 305-326 that follow the last one are run, so
\* that the call does not stay in front of them.
SpecHung ==
    /\ InitHung
    /\ [][NextHung]_vars
    /\ WF_vars(Settles(2))
    /\ []<>(frame[2].pc # "finish")

\* One request with a long text of unknown words; the other steps of Step are
\* never enabled on such a text.
NextLong == AnalyzeLongText(1) \/ StepUnknown(1)

SpecLong == Init /\ [][NextLong]_vars

\* A process with a warm cache and no DeepSeek key is given one text: every
\* word is answered from the cache or found nowhere, and the text's result
\* is what calculateOverallEmotion makes of the list.
InitAggregate ==
    /\ wordCache = SampleCache
    /\ words_table = SampleTable
    /\ deepseekApiKey = FALSE
    /\ frame = [c \in Calls |-> IdleFrame]
    /\ io = [c \in Calls |-> NoIo]
    /\ tokensUsed = 0
    /\ failedWords = {}
    /\ SessionInit
    /\ LogInit
    /\ StandaloneInit

AnalyzeSample(c) == tokensUsed = 0 /\ StartCall(c, SampleTokens, MaxSampleWords)

NextAggregate ==
    \/ AnalyzeSample(1)
    \/ CacheHit(1)
    \/ CacheMiss(1)
    \/ QueryEmpty(1)
    \/ QueryError(1)
    \/ SelectUnknown(1)
    \/ Finish(1)
    \/ Return(1)

SpecAggregate == InitAggregate /\ [][NextAggregate]_vars

(***************************************************************************)
(* POST /v1/sessions/:sessionId/end: the summary of a session, lines       *)
(* 1270-1332 of the server. Message values are thousandths; the summary's  *)
(* values are quotients.                                                   *)
(***************************************************************************)
\* weights[i] = 1 + i / messages.rows.length, i counted from 0.
RecencyWeight(i, n) == Ratio(n + i, n)

\* weights.reduce((a, b) => a + b, 0): the weights have the denominator n.
RECURSIVE WeightNumSum(_, _)
WeightNumSum(i, n) ==
    IF i >= n THEN 0 ELSE RecencyWeight(i, n).num + WeightNumSum(i + 1, n)

TotalWeight(n) == Ratio(WeightNumSum(0, n), n)

\* weight = weights[i] / totalWeight.
NormalizedWeight(i, n) == Ratio(RecencyWeight(i, n).num, TotalWeight(n).num)

\* vad?.valence || 0.5: a value of 0 is read as 0.5.
ValueOrHalf(v) == IF v = 0 THEN 500 ELSE v

\* The score of a category in a message's emotions, for the categories of
\* emotionBreakdown.
ScoreOf(msg, emotion) ==
    IF HasKey(msg.emotions, emotion) THEN ValueOf(msg.emotions, emotion) ELSE 0

\* The forEach of lines 1284-1298 over rows k..n: the sum of score * weight,
\* as a numerator over TotalWeight(n).num * 1000.
RECURSIVE WeightedScore(_, _, _)
WeightedScore(rows, k, emotion) ==
    IF k > Len(rows) THEN 0
    ELSE ScoreOf(rows[k], emotion) * NormalizedWeight(k - 1, Len(rows)).num
            + WeightedScore(rows, k + 1, emotion)

RECURSIVE WeightedVad(_, _, _)
WeightedVad(rows, k, field) ==
    IF k > Len(rows) THEN 0
    ELSE ValueOrHalf(rows[k].vad[field]) * NormalizedWeight(k - 1, Len(rows)).num
            + WeightedVad(rows, k + 1, field)

\* The list left unsorted and read at its last place.
SortedLast(breakdown, best, k) == Len(breakdown)

\* Object.entries(emotionBreakdown).sort(([,a], [,b]) => b - a)[0][0]: the
\* sort is stable, so of equal values the first in key order comes first.
RECURSIVE SortedFirst(_, _, _)
SortedFirst(breakdown, best, k) ==
    IF k > Len(breakdown) THEN best
    ELSE SortedFirst(breakdown,
                     IF RatioGreater(breakdown[k], breakdown[best]) THEN k ELSE best,
                     k + 1)

MinTrendMessages == 4
TrendThreshold == 100

\* The sum of valence || 0.5 over rows from..to.
RECURSIVE ValenceSum(_, _, _)
ValenceSum(rows, from, to) ==
    IF from > to THEN 0
    ELSE ValueOrHalf(rows[from].vad.valence) + ValenceSum(rows, from + 1, to)

\* sentimentTrend with the halves compared from 2 messages on.
sentimentTrendFromTwo(rows) ==
    LET n == Len(rows)
        midPoint == n \div 2
        firstSum == ValenceSum(rows, 1, midPoint)
        secondSum == ValenceSum(rows, midPoint + 1, n)
        diffNum == secondSum * midPoint - firstSum * (n - midPoint)
        bound == TrendThreshold * midPoint * (n - midPoint)
    IN  IF n < 2 THEN "stable"
        ELSE IF diffNum > bound THEN "improving"
        ELSE IF diffNum < 0 - bound THEN "declining"
        ELSE "stable"

\* Lines 1310-1328. diff > 0.1 is secondSum / secondLen - firstSum / firstLen
\* > 0.1, written without the divisions.
sentimentTrend(rows) ==
    LET n == Len(rows)
        midPoint == n \div 2
        firstSum == ValenceSum(rows, 1, midPoint)
        secondSum == ValenceSum(rows, midPoint + 1, n)
        firstLen == midPoint
        secondLen == n - midPoint
        diffNum == secondSum * firstLen - firstSum * secondLen
        bound == TrendThreshold * firstLen * secondLen
    IN  IF n < MinTrendMessages THEN "stable"
        ELSE IF diffNum > bound THEN "improving"
        ELSE IF diffNum < 0 - bound THEN "declining"
        ELSE "stable"

\* A duration that is always zero.
durationZero(startedAt, time) == 0

\* Line 1332: Math.floor((new Date() - new Date(session.started_at)) / 1000),
\* the clock being in whole seconds.
durationSeconds(startedAt, time) == time - startedAt

\* Lines 1270-1332: the summary of the messages read, at time time for a
\* session started at startedAt.
SessionSummary(rows, startedAt, time) ==
    LET n == Len(rows)
        den == IF n > 0 THEN TotalWeight(n).num * 1000 ELSE 1
        breakdown == [e \in 1..8 |-> Ratio(WeightedScore(rows, 1, EmotionNames[e]), den)]
        mood == SortedFirst(breakdown, 1, 2)
    IN  IF n = 0
        THEN [overall_mood |-> "neutral",
              mood_confidence |-> Ratio(125, 1000),
              emotion_breakdown |-> Probs(EmotionNames, [e \in 1..8 |-> Ratio(0, 1)]),
              avg_valence |-> Ratio(500, 1000),
              avg_arousal |-> Ratio(500, 1000),
              avg_dominance |-> Ratio(500, 1000),
              sentiment_trend |-> "stable",
              duration_seconds |-> durationSeconds(startedAt, time),
              message_count |-> 0]
        ELSE [overall_mood |-> EmotionNames[mood],
              mood_confidence |-> breakdown[mood],
              emotion_breakdown |-> Probs(EmotionNames, breakdown),
              avg_valence |-> Ratio(WeightedVad(rows, 1, "valence"), den),
              avg_arousal |-> Ratio(WeightedVad(rows, 1, "arousal"), den),
              avg_dominance |-> Ratio(WeightedVad(rows, 1, "dominance"), den),
              sentiment_trend |-> sentimentTrend(rows),
              duration_seconds |-> durationSeconds(startedAt, time),
              message_count |-> n]

(***************************************************************************)
(* The session endpoints. Each await of a handler ends a step.             *)
(***************************************************************************)
SessionIds == {"session_1"}

\* The results analyzeText gives for the texts of the messages: a joyful
\* text, a grim one whose only qualifying word has valence 0, a text with
\* no qualifying word, and one whose joy and trust are equal.
MessageAnalysis(emotion, vals, valence, arousal) ==
    [overall_emotion |-> emotion,
     emotions |-> Probs(EmotionNames, vals),
     vad |-> [valence |-> valence, arousal |-> arousal, dominance |-> 500]]

SampleAnalyses ==
    { MessageAnalysis("joy", <<600, 100, 100, 100, 25, 25, 25, 25>>, 900, 700),
      MessageAnalysis("sadness", <<25, 25, 25, 25, 100, 100, 600, 100>>, 0, 600),
      MessageAnalysis("neutral", <<125, 125, 125, 125, 125, 125, 125, 125>>, 500, 500),
      MessageAnalysis("trust", <<300, 300, 100, 100, 50, 50, 50, 50>>, 400, 400) }

\* n / d rounded to the nearest integer, for n >= 0 and d > 0.
RoundDiv(n, d) == (n + (d \div 2)) \div d

\* A quotient as a DECIMAL(5,4) column stores it, in ten-thousandths.
Decimal4(x) == RoundDiv(x.num * 10000, x.den)

\* INSERT INTO sessions ... VALUES ($1, $2, $3, 'active', $4), lines 991-995,
\* with the column defaults of lines 475-494.
NewSession(id, profileId, time) ==
    [id |-> id, profile_id |-> profileId, status |-> "active",
     started_at |-> time, ended_at |-> Null, duration_seconds |-> Null,
     message_count |-> 0, overall_mood |-> Null, mood_confidence |-> Null,
     emotion_breakdown |-> Probs(<<>>, <<>>), avg_valence |-> Null,
     avg_arousal |-> Null, avg_dominance |-> Null, sentiment_trend |-> Null]

\* UPDATE sessions SET status = 'ended', ... WHERE id = $1, lines 1335-1360.
EndedSession(row, summary, time) ==
    [row EXCEPT
        !.status = "ended", !.ended_at = time,
        !.duration_seconds = summary.duration_seconds,
        !.overall_mood = summary.overall_mood,
        !.mood_confidence = Decimal4(summary.mood_confidence),
        !.emotion_breakdown = summary.emotion_breakdown,
        !.avg_valence = Decimal4(summary.avg_valence),
        !.avg_arousal = Decimal4(summary.avg_arousal),
        !.avg_dominance = Decimal4(summary.avg_dominance),
        !.sentiment_trend = summary.sentiment_trend]

\* (avg * total_sessions + x) / (total_sessions + 1), stored as DECIMAL(5,4).
RunningMean(avg, total, x) ==
    RoundDiv(avg * total * x.den + 10000 * x.num, x.den * (total + 1))

\* UPDATE profiles SET total_sessions = total_sessions + 1, ..., lines
\* 1363-1372.
UpdatedProfile(row, summary) ==
    [total_sessions |-> row.total_sessions + 1,
     total_messages |-> row.total_messages + summary.message_count,
     avg_valence |-> RunningMean(row.avg_valence, row.total_sessions, summary.avg_valence),
     avg_arousal |-> RunningMean(row.avg_arousal, row.total_sessions, summary.avg_arousal),
     dominant_emotion |-> summary.overall_mood]

Respond(r, status, body) == [r EXCEPT !.pc = "done", !.response = [status |-> status, body |-> body]]

Logged(op, c, id) == [op |-> op, call |-> c, sessionId |-> id]

\* POST /v1/sessions with profile_id and org_id, lines 946-1008: the one
\* statement of the handler is the INSERT, under a fresh generateId.
StartSession(c) ==
    /\ request[c].pc = "idle"
    /\ \E id \in SessionIds \ DOMAIN sessions : \E p \in ProfileIds :
          sessions' = [k \in DOMAIN sessions \cup {id} |->
                          IF k = id THEN NewSession(id, p, now) ELSE sessions[k]]
    /\ UNCHANGED <<engineVars, logVars, standaloneVars, session_messages, profiles, request, now, sessionLog>>

\* POST /v1/sessions/:sessionId/messages, lines 1068-1087: the session is
\* looked up; 404 without a row, 400 unless it is active.
MessageCheck(c) ==
    /\ request[c].pc = "idle"
    /\ \E id \in SessionIds :
          request' = [request EXCEPT ![c] =
              IF id \notin DOMAIN sessions
              THEN Respond([IdleRequest EXCEPT !.kind = "message", !.sessionId = id],
                           404, "Session not found")
              ELSE IF sessions[id].status # "active"
              THEN Respond([IdleRequest EXCEPT !.kind = "message", !.sessionId = id],
                           400, "Session is not active")
              ELSE [IdleRequest EXCEPT !.kind = "message", !.sessionId = id,
                                       !.pc = "insert"]]
    /\ UNCHANGED <<engineVars, logVars, standaloneVars, sessions, session_messages, profiles, now, sessionLog>>

\* Lines 1089-1113: analyzeText returns, and the message row is inserted.
MessageInsertUpTo(c, maxMessages) ==
    /\ request[c].pc = "insert"
    /\ Len(session_messages) < maxMessages
    /\ \E analysis \in SampleAnalyses :
          /\ session_messages' = Append(session_messages,
                    [session_id |-> request[c].sessionId,
                     overall_emotion |-> analysis.overall_emotion,
                     emotions |-> analysis.emotions,
                     vad |-> analysis.vad])
          /\ request' = [request EXCEPT ![c].pc = "count", ![c].analysis = analysis]
    /\ UNCHANGED <<engineVars, logVars, standaloneVars, sessions, profiles, now, sessionLog>>

MessageInsert(c) == MessageInsertUpTo(c, MaxMessages)

\* The same for the requests that may overlap.
MessageInsertRace(c) == MessageInsertUpTo(c, MaxRaceMessages)

\* Lines 1115-1125: message_count is incremented and the request answered.
MessageCount(c) ==
    LET id == request[c].sessionId
    IN  /\ request[c].pc = "count"
        /\ sessions' = [sessions EXCEPT ![id].message_count = @ + 1]
        /\ request' = [request EXCEPT ![c] = Respond(@, 200, request[c].analysis)]
        /\ UNCHANGED <<engineVars, logVars, standaloneVars, session_messages, profiles, now, sessionLog>>

\* EndCheck without the test of session.status (lines 1255-1260).
EndCheckAnyStatus(c) ==
    /\ request[c].pc = "idle"
    /\ \E id \in SessionIds :
          request' = [request EXCEPT ![c] =
              IF id \notin DOMAIN sessions
              THEN Respond([IdleRequest EXCEPT !.kind = "end", !.sessionId = id],
                           404, "Session not found")
              ELSE [IdleRequest EXCEPT !.kind = "end", !.sessionId = id,
                                       !.session = sessions[id], !.pc = "read"]]
    /\ UNCHANGED <<engineVars, logVars, standaloneVars, sessions, session_messages, profiles, now, sessionLog>>

\* POST /v1/sessions/:sessionId/end, lines 1240-1260: the session is looked
\* up; 404 without a row, 400 unless it is active.
EndCheck(c) ==
    /\ request[c].pc = "idle"
    /\ \E id \in SessionIds :
          request' = [request EXCEPT ![c] =
              IF id \notin DOMAIN sessions
              THEN Respond([IdleRequest EXCEPT !.kind = "end", !.sessionId = id],
                           404, "Session not found")
              ELSE IF sessions[id].status # "active"
              THEN Respond([IdleRequest EXCEPT !.kind = "end", !.sessionId = id],
                           400, "Session is already ended")
              ELSE [IdleRequest EXCEPT !.kind = "end", !.sessionId = id,
                                       !.session = sessions[id], !.pc = "read"]]
    /\ UNCHANGED <<engineVars, logVars, standaloneVars, sessions, session_messages, profiles, now, sessionLog>>

\* Lines 1262-1332: the messages of the session are read in the order of
\* created_at, and the summary and the duration are computed.
EndRead(c) ==
    LET r == request[c]
        rows == SelectSeq(session_messages, LAMBDA m : m.session_id = r.sessionId)
    IN  /\ r.pc = "read"
        /\ request' = [request EXCEPT
                ![c].pc = "update", ![c].messages = rows,
                ![c].summary = SessionSummary(rows, r.session.started_at, now)]
        /\ UNCHANGED <<engineVars, logVars, standaloneVars, sessions, session_messages, profiles, now, sessionLog>>

\* Lines 1335-1360: the session row is updated.
EndUpdate(c) ==
    LET r == request[c]
    IN  /\ r.pc = "update"
        /\ sessions' = [sessions EXCEPT ![r.sessionId] = EndedSession(@, r.summary, now)]
        /\ request' = [request EXCEPT ![c].pc = "profile"]
        /\ sessionLog' = Append(sessionLog, Logged("update_session", c, r.sessionId))
        /\ UNCHANGED <<engineVars, logVars, standaloneVars, session_messages, profiles, now>>

\* Lines 1362-1388: the profile row is updated and the summary returned.
EndProfile(c) ==
    LET r == request[c]
    IN  /\ r.pc = "profile"
        /\ profiles' = [profiles EXCEPT ![r.session.profile_id] =
                            UpdatedProfile(@, r.summary)]
        /\ request' = [request EXCEPT ![c] = Respond(@, 200, r.summary)]
        /\ sessionLog' = Append(sessionLog, Logged("update_profile", c, r.sessionId))
        /\ UNCHANGED <<engineVars, logVars, standaloneVars, sessions, session_messages, now>>

\* The catch blocks of lines 1126-1132 and 1389-1395: the statement the
\* request was waiting for is rejected and writes nothing; 500 is returned.
RequestFails(c) ==
    /\ request[c].pc \in {"insert", "count", "read", "update", "profile"}
    /\ request' = [request EXCEPT ![c] = Respond(@, 500, "Failed")]
    /\ UNCHANGED <<engineVars, logVars, standaloneVars, sessions, session_messages, profiles, now, sessionLog>>

\* The client has the response.
RequestReturn(c) ==
    /\ request[c].pc = "done"
    /\ request' = [request EXCEPT ![c] = IdleRequest]
    /\ UNCHANGED <<engineVars, logVars, standaloneVars, sessions, session_messages, profiles, now, sessionLog>>

\* A second passes.
Tick ==
    /\ now < MaxElapsed
    /\ now' = now + 1
    /\ UNCHANGED <<engineVars, logVars, standaloneVars, sessions, session_messages, profiles, request, sessionLog>>

SessionStep(c) ==
    \/ MessageInsert(c)
    \/ MessageCount(c)
    \/ EndRead(c)
    \/ EndUpdate(c)
    \/ EndProfile(c)
    \/ RequestFails(c)
    \/ RequestReturn(c)

\* The requests of one client, one after the other.
NextSession ==
    \/ StartSession(1)
    \/ MessageCheck(1)
    \/ EndCheck(1)
    \/ SessionStep(1)
    \/ Tick

\* The engine is left as constructed, without a DeepSeek key.
InitSession == Init /\ deepseekApiKey = FALSE

SpecSession == InitSession /\ [][NextSession]_vars

\* The requests of two clients, which may overlap.
NextSessionRace ==
    \/ StartSession(1)
    \/ \E c \in Calls :
          \/ MessageCheck(c)
          \/ MessageInsertRace(c)
          \/ MessageCount(c)
          \/ EndCheck(c)
          \/ EndRead(c)
          \/ EndUpdate(c)
          \/ EndProfile(c)
          \/ RequestFails(c)
          \/ RequestReturn(c)

SpecSessionRace == InitSession /\ [][NextSessionRace]_vars

(***************************************************************************)
(* The entry points that pass the text of a request to analyzeText: POST   *)
(* /v1/analyze-text (src/server.js), POST /v1/sessions/:sessionId/messages *)
(* (src/unnamed/part_001) and the serverless handler                       *)
(* (src/api/emotion-engine-db.js).                                         *)
(***************************************************************************)
\* 10000, the length the entry points compare with.
TextLimit == 10000

\* req.body: the text field is absent, or a string.
Body(present, text) == [present |-> present, text |-> text]

\* A text longer than the limit also once trimmed.
OverLongText == <<"a">> \o [k \in 1..(TextLimit - 1) |-> " "] \o <<"a">>

\* The bodies of the requests: no text field, the empty string, a blank, a
\* word, a word between blanks, and the over-long text.
Bodies ==
    { Body(FALSE, <<>>), Body(TRUE, <<>>), Body(TRUE, <<" ">>),
      Body(TRUE, <<"j","o","y">>), Body(TRUE, <<" ","s","a","d"," ">>),
      Body(TRUE, OverLongText) }

\* !text.
IsFalsy(body) == ~body.present \/ Len(body.text) = 0

\* String.prototype.trim.
Trim(s) ==
    IF \A k \in DOMAIN s : IsSpace(s[k]) THEN <<>>
    ELSE LET first == SkipSpace(s, 1)
             last == CHOOSE m \in DOMAIN s :
                        ~IsSpace(s[m]) /\ \A n \in (m + 1)..Len(s) : IsSpace(s[n])
         IN  SubSeq(s, first, last)

Rejected(status, error) == [rejected |-> TRUE, status |-> status, error |-> error]
Accepted(text) == [rejected |-> FALSE, text |-> text]

\* POST /v1/analyze-text, src/server.js lines 95-109: what the handler does
\* with the body before it calls analyzeText.
analyzeTextEndpoint(body) ==
    IF IsFalsy(body) THEN Rejected(400, "Missing required field: text")
    ELSE IF Len(body.text) > TextLimit
    THEN Rejected(400, "Text too long. Maximum 10,000 characters")
    ELSE Accepted(body.text)

\* POST /v1/sessions/:sessionId/messages, lines 1059-1066 and 1090.
messagesEndpoint(body) ==
    IF IsFalsy(body) THEN Rejected(400, "Missing required field: text")
    ELSE Accepted(body.text)

\* The serverless handler, src/api/emotion-engine-db.js lines 567-592.
handler(body) ==
    IF IsFalsy(body) THEN Rejected(400, "Invalid input")
    ELSE IF Len(Trim(body.text)) = 0 THEN Rejected(400, "Empty text provided")
    ELSE IF Len(Trim(body.text)) > TextLimit THEN Rejected(400, "Text too long")
    ELSE Accepted(Trim(body.text))

\* A request reaches an entry point that has no await before analyzeText:
\* it is answered 400, or analyzeText is called.
EntryCall(c, kind, checked) ==
    /\ request[c].pc = "idle"
    /\ frame[c].pc = "idle"
    /\ IF checked.rejected
       THEN /\ request' = [request EXCEPT ![c] =
                    Respond([IdleRequest EXCEPT !.kind = kind], checked.status, checked.error)]
            /\ UNCHANGED <<frame, io, tokensUsed>>
       ELSE /\ tokensUsed + Len(SplitWhitespace(checked.text)) <= MaxEntryTokens
            /\ CallAnalyzeText(c, checked.text)
            /\ request' = [request EXCEPT ![c] =
                    [IdleRequest EXCEPT !.kind = kind, !.pc = "analyze"]]
    /\ UNCHANGED <<wordCache, words_table, deepseekApiKey, failedWords,
                   sessions, session_messages, profiles, now, sessionLog, logVars, standaloneVars>>

PostAnalyzeText(c) == \E body \in Bodies : EntryCall(c, "analyze-text", analyzeTextEndpoint(body))

ServerlessHandler(c) == \E body \in Bodies : EntryCall(c, "handler", handler(body))

\* POST /v1/sessions/:sessionId/messages, lines 1056-1090: the text is
\* tested, the session is looked up, and analyzeText is called.
PostMessage(c) ==
    /\ request[c].pc = "idle"
    /\ frame[c].pc = "idle"
    /\ \E body \in Bodies : \E id \in SessionIds :
          LET checked == messagesEndpoint(body)
              idle == [IdleRequest EXCEPT !.kind = "message", !.sessionId = id]
          IN  IF checked.rejected \/ id \notin DOMAIN sessions
              THEN /\ request' = [request EXCEPT ![c] =
                          IF checked.rejected
                          THEN Respond(idle, checked.status, checked.error)
                          ELSE Respond(idle, 404, "Session not found")]
                   /\ UNCHANGED <<frame, io, tokensUsed>>
              ELSE IF sessions[id].status # "active"
              THEN /\ request' = [request EXCEPT ![c] =
                          Respond(idle, 400, "Session is not active")]
                   /\ UNCHANGED <<frame, io, tokensUsed>>
              ELSE /\ tokensUsed + Len(SplitWhitespace(checked.text)) <= MaxEntryTokens
                   /\ CallAnalyzeText(c, checked.text)
                   /\ request' = [request EXCEPT ![c] = [idle EXCEPT !.pc = "analyze"]]
    /\ UNCHANGED <<wordCache, words_table, deepseekApiKey, failedWords,
                   sessions, session_messages, profiles, now, sessionLog, logVars, standaloneVars>>

\* analyzeText has returned: the two stateless entry points answer with the
\* result (src/server.js lines 111-121, emotion-engine-db.js lines 594-610),
\* the messages handler goes on to its INSERT (line 1093).
EntryAnalyzed(c) ==
    /\ request[c].pc = "analyze"
    /\ frame[c].pc = "done"
    /\ request' = [request EXCEPT ![c] =
          IF request[c].kind = "message" THEN [@ EXCEPT !.pc = "insert"]
          ELSE Respond(@, 200, frame[c].result.analysis)]
    /\ frame' = [frame EXCEPT ![c] = IdleFrame]
    /\ io' = [io EXCEPT ![c] = NoIo]
    /\ UNCHANGED <<wordCache, words_table, deepseekApiKey, tokensUsed, failedWords,
                   sessions, session_messages, profiles, now, sessionLog, logVars, standaloneVars>>

\* The requests of one client to the three entry points, one after the
\* other, served by an engine without a DeepSeek key.
NextEntry ==
    \/ StartSession(1)
    \/ PostAnalyzeText(1)
    \/ ServerlessHandler(1)
    \/ PostMessage(1)
    \/ SkipEmpty(1)
    \/ CacheHit(1)
    \/ CacheMiss(1)
    \/ QueryRow(1)
    \/ QueryEmpty(1)
    \/ QueryError(1)
    \/ SelectUnknown(1)
    \/ Finish(1)
    \/ EntryAnalyzed(1)
    \/ MessageInsertRace(1)
    \/ MessageCount(1)
    \/ RequestFails(1)
    \/ RequestReturn(1)

SpecEntry == InitSession /\ [][NextEntry]_vars

(***************************************************************************)
(* GET /v1/status, src/server.js lines 264-333.                            *)
(***************************************************************************)
EndpointNames == <<"health", "stats", "analyze_text", "analyze_audio", "database">>

\* getDatabaseStats, lines 507-525 of the engine: the count of the words
\* table, or, when the query is rejected, a count of 0 with the error. It
\* never throws.
getDatabaseStats(reachable) ==
    IF reachable
    THEN [total_words |-> Cardinality(words_table), error |-> FALSE]
    ELSE [total_words |-> 0, error |-> TRUE]

\* Lines 277-304: the status of each endpoint. The catch of lines 283-287,
\* which sets 'down', is for a rejection getDatabaseStats never gives.
EndpointStatus(name, dbStats) ==
    IF name = "database"
    THEN (IF dbStats.total_words > 0 THEN "operational" ELSE "degraded")
    ELSE "operational"

\* Lines 306-309.
OverallStatus(statuses) ==
    IF \A k \in DOMAIN statuses : statuses[k] = "operational" THEN "operational"
    ELSE IF \E k \in DOMAIN statuses : statuses[k] = "down" THEN "degraded"
    ELSE "operational"

StatusBody(dbStats) ==
    LET statuses == [k \in DOMAIN EndpointNames |-> EndpointStatus(EndpointNames[k], dbStats)]
    IN  [overall_status |-> OverallStatus(statuses),
         endpoints |-> Probs(EndpointNames, statuses),
         word_count |-> dbStats.total_words]

\* The request arrives and the count query is sent (lines 265-279).
GetStatus(c) ==
    /\ request[c].pc = "idle"
    /\ request' = [request EXCEPT ![c] = [IdleRequest EXCEPT !.kind = "status", !.pc = "stats"]]
    /\ UNCHANGED <<engineVars, logVars, standaloneVars, sessions, session_messages, profiles, now, sessionLog>>

\* The count query settles, executed or rejected, and the response is sent
\* (lines 279-322).
StatusAnswered(c) ==
    /\ request[c].pc = "stats"
    /\ \E reachable \in BOOLEAN :
          LET dbStats == getDatabaseStats(reachable)
          IN  request' = [request EXCEPT ![c] =
                  Respond([@ EXCEPT !.dbStats = dbStats], 200, StatusBody(dbStats))]
    /\ UNCHANGED <<engineVars, logVars, standaloneVars, sessions, session_messages, profiles, now, sessionLog>>

\* A text within what is left of the token budget of a process whose status
\* is asked for.
AnalyzeObserved(c) == StartCall(c, RawTokens, MaxStatusTokens - tokensUsed)

\* Status requests of one client while the engine serves texts.
NextStatus ==
    \/ GetStatus(1)
    \/ StatusAnswered(1)
    \/ RequestReturn(1)
    \/ AnalyzeObserved(1)
    \/ Step(1)

SpecStatus == Init /\ [][NextStatus]_vars

(***************************************************************************)
(* The migration script, src/migrate-words-to-db.js: it reads the word     *)
(* files and inserts each entry into the words table.                      *)
(***************************************************************************)
\* How often the script is run.
MaxRuns == 2

\* The entries of the word files, in the order the script reads them: the
\* curated word, a word DeepSeek may have been asked about before the script
\* ran, with the profile the file gives it, and an entry without stats.
WordFiles ==
    << [word |-> <<"j","o","y">>,
        stats |-> [emotion_probs |-> Probs(EmotionNames, <<600, 100, 100, 100, 25, 25, 25, 25>>),
                   vad |-> [valence |-> 900, arousal |-> 700, dominance |-> 600],
                   sentiment |-> [polarity |-> "positive", strength |-> 800]]],
       [word |-> <<"s","a","d">>,
        stats |-> [emotion_probs |-> Probs(EmotionNames, <<25, 25, 25, 25, 100, 100, 650, 50>>),
                   vad |-> [valence |-> 100, arousal |-> 400, dominance |-> 300],
                   sentiment |-> [polarity |-> "negative", strength |-> 900]]],
       [word |-> <<"o","k">>, stats |-> Undefined] >>

\* !entry.word || !entry.stats, line 59.
InvalidEntry(entry) == Len(entry.word) = 0 \/ entry.stats = Undefined

\* The parameter list of the script's INSERT, lines 86-109: the same columns
\* and the same defaults as saveWordToDatabase's.
MigratedRow(entry) == InsertedRow(entry.word, entry.stats)

\* The table the script may find: none of its words, its words, or a row
\* the engine saved for a word of the files after DeepSeek answered.
TablesBeforeMigration ==
    { {}, {CuratedRow}, {InsertedRow(<<"s","a","d">>, InferredProfile)} }

InitMigrate ==
    /\ wordCache = <<>>
    /\ words_table \in TablesBeforeMigration
    /\ deepseekApiKey \in BOOLEAN
    /\ frame = [c \in Calls |-> IdleFrame]
    /\ io = [c \in Calls |-> NoIo]
    /\ tokensUsed = 0
    /\ failedWords = {}
    /\ SessionInit
    /\ LogInit
    /\ StandaloneInit

\* node migrate-words-to-db.js, lines 22-41: the counters start at zero and
\* the connection is there (without it the script exits, line 40).
MigrateStart ==
    /\ migration.pc = "idle"
    /\ Len(migration.runs) < MaxRuns
    /\ migration' = [migration EXCEPT !.pc = "entry", !.k = 1, !.insertedWords = 0,
                                      !.skippedWords = 0, !.errors = 0]
    /\ UNCHANGED <<engineVars, sessionVars, logVars, rateLimits, authClock, authLog>>

\* Lines 59-63: an entry without a word or without stats is skipped.
MigrateSkipInvalid ==
    /\ migration.pc = "entry"
    /\ migration.k <= Len(WordFiles)
    /\ InvalidEntry(WordFiles[migration.k])
    /\ migration' = [migration EXCEPT !.k = @ + 1, !.skippedWords = @ + 1]
    /\ UNCHANGED <<engineVars, sessionVars, logVars, rateLimits, authClock, authLog>>

\* Lines 68-116: the INSERT ... ON CONFLICT (word) DO NOTHING returns, and
\* insertedWords counts it whether or not it added a row.
MigrateInsert ==
    /\ migration.pc = "entry"
    /\ migration.k <= Len(WordFiles)
    /\ ~InvalidEntry(WordFiles[migration.k])
    /\ words_table' = UpsertDoNothing(words_table, MigratedRow(WordFiles[migration.k]))
    /\ migration' = [migration EXCEPT !.k = @ + 1, !.insertedWords = @ + 1]
    /\ UNCHANGED <<wordCache, deepseekApiKey, frame, io, tokensUsed, failedWords,
                   sessionVars, logVars, rateLimits, authClock, authLog>>

\* Lines 117-125: the INSERT throws (the connection drops, the statement
\* times out); the script counts the error and goes on with the next entry.
MigrateInsertFails ==
    /\ migration.pc = "entry"
    /\ migration.k <= Len(WordFiles)
    /\ ~InvalidEntry(WordFiles[migration.k])
    /\ migration' = [migration EXCEPT !.k = @ + 1, !.errors = @ + 1]
    /\ UNCHANGED <<engineVars, sessionVars, logVars, rateLimits, authClock, authLog>>

\* Lines 136-151: the summary is printed and the pool is closed.
MigrateDone ==
    /\ migration.pc = "entry"
    /\ migration.k > Len(WordFiles)
    /\ migration' = [migration EXCEPT
                       !.pc = "idle",
                       !.runs = Append(@, [table |-> words_table,
                                           insertedWords |-> migration.insertedWords,
                                           skippedWords |-> migration.skippedWords,
                                           errors |-> migration.errors])]
    /\ UNCHANGED <<engineVars, sessionVars, logVars, rateLimits, authClock, authLog>>

NextMigrate ==
    \/ MigrateStart
    \/ MigrateSkipInvalid
    \/ MigrateInsert
    \/ MigrateInsertFails
    \/ MigrateDone

SpecMigrate == InitMigrate /\ [][NextMigrate]_vars

(***************************************************************************)
(* The token authenticator, src/api/auth-middleware.js.                    *)
(*   rateLimits  this.rateLimits, a Map from client id to the times of     *)
(*               the requests counted for it                               *)
(*   authClock   Date.now(), in milliseconds since the process started     *)
(*   authLog     for each token, what authenticate answered its requests:  *)
(*               the time and 'next', '401' or '429'                       *)
(***************************************************************************)
windowMs == 60000
maxRequests == 100

\* How many half windows the clock is followed for.
MaxHalfWindows == 2
\* The requests of the second client and those without an authorized token.
MaxOtherRequests == 1

\* crypto.createHash('sha256').update(token).digest('hex'), lines 36-39: one
\* digest for each token, given by its first characters; those of the two
\* configured tokens differ in the eighth only.
hashToken(token) ==
    CASE token = BusyToken    -> <<"3","c","4","6","9","e","9","d","6","c">>
      [] token = QuietToken   -> <<"3","c","4","6","9","e","9","a","0","1">>
      [] token = GuessedToken -> <<"e","0","b","f","2","5","1","7","6","c">>
      [] OTHER                -> <<"e","3","b","0","c","4","4","2","9","8">>

\* loadAuthorizedTokens, lines 13-34.
authorizedTokens == {hashToken(BusyToken), hashToken(QuietToken)}

\* hashedToken.substring(0, 8), line 81.
ClientId(hashedToken) == SubSeq(hashedToken, 1, 8)

\* A limit test that lets the request after the last one through.
LimitReachedAbove(requests) == Len(requests) > maxRequests

\* requests.length >= maxRequests, line 97.
LimitReached(requests) == Len(requests) >= maxRequests

\* The while loop of lines 93-95: the oldest times are dropped as long as
\* they are a window old.
RECURSIVE FilterOld(_, _)
FilterOld(requests, time) ==
    IF Len(requests) > 0 /\ time - Head(requests) >= windowMs
    THEN FilterOld(Tail(requests), time)
    ELSE requests

\* this.rateLimits.get(clientId), or the empty array of lines 87-90.
RequestsOf(clientId) ==
    IF clientId \in DOMAIN rateLimits THEN rateLimits[clientId] ELSE <<>>

MapSet(map, key, value) ==
    [k \in DOMAIN map \cup {key} |-> IF k = key THEN value ELSE map[k]]

Answered(token, outcome) ==
    [authLog EXCEPT ![token] = Append(@, [at |-> authClock, status |-> outcome])]

\* What the log has of a token at the present instant.
AnsweredNow(token, outcome) ==
    Cardinality({k \in DOMAIN authLog[token] :
                    /\ authLog[token][k].at = authClock
                    /\ authLog[token][k].status = outcome})

\* The requests that are sent: a client that was refused does not ask again
\* at the same instant, the second client and the requests without an
\* authorized token are few.
MaySend(token) ==
    /\ AnsweredNow(token, "429") = 0
    /\ token # BusyToken =>
          Len(authLog[QuietToken]) + Len(authLog[GuessedToken]) + Len(authLog[NoToken])
             < MaxOtherRequests

\* authenticate(req, res, next), lines 41-110.
Authenticate(token) ==
    LET hashedToken == hashToken(token)
        clientId == ClientId(hashedToken)
        requests == FilterOld(RequestsOf(clientId), authClock)
    IN  /\ MaySend(token)
        /\ IF token = NoToken \/ hashedToken \notin authorizedTokens
           THEN /\ authLog' = Answered(token, "401")
                /\ UNCHANGED rateLimits
           ELSE IF LimitReached(requests)
           THEN /\ rateLimits' = MapSet(rateLimits, clientId, requests)
                /\ authLog' = Answered(token, "429")
           ELSE /\ rateLimits' = MapSet(rateLimits, clientId, Append(requests, authClock))
                /\ authLog' = Answered(token, "next")
        /\ UNCHANGED <<engineVars, sessionVars, logVars, migration, authClock>>

\* Half a window passes. The first client has sent nothing in this instant,
\* or one request, or requests until it was refused.
ClockAdvance ==
    /\ authClock < MaxHalfWindows * (windowMs \div 2)
    /\ \/ AnsweredNow(BusyToken, "next") <= 1
       \/ AnsweredNow(BusyToken, "429") > 0
    /\ authClock' = authClock + (windowMs \div 2)
    /\ UNCHANGED <<engineVars, sessionVars, logVars, migration, rateLimits, authLog>>

NextAuth ==
    \/ \E token \in Requesters : Authenticate(token)
    \/ ClockAdvance

\* The engine is left as constructed, without a DeepSeek key.
InitAuth == Init /\ deepseekApiKey = FALSE

SpecAuth == InitAuth /\ [][NextAuth]_vars

(***************************************************************************)
(* What the claims read off a step or a state.                             *)
(***************************************************************************)
Last(s) == s[Len(s)]

\* The words call c has sent with operation op, in order.
RECURSIVE WordsOf(_, _)
WordsOf(events, op) ==
    IF Len(events) = 0 THEN <<>>
    ELSE IF Head(events).op = op THEN <<Head(events).word>> \o WordsOf(Tail(events), op)
    ELSE WordsOf(Tail(events), op)

Sent(c, op) == WordsOf(io[c].events, op)

\* This step sends an operation op of call c.
Sends(c, op) ==
    /\ Len(io'[c].events) = Len(io[c].events) + 1
    /\ Last(io'[c].events).op = op

\* This step ends getWordData for the word at frame[c].i with an analysis.
Resolves(c) ==
    /\ frame[c].pc \in {"scan", "query"}
    /\ Len(frame'[c].wordAnalyses) = Len(frame[c].wordAnalyses) + 1

\* The clean word call c is resolving.
CurrentWord(c) == ToLowerCase(frame[c].cleanWords[frame[c].i])

(***************************************************************************)
(* C1: getWordData consults the cache first and queries the words table    *)
(* only on a cache miss. A word in the cache is resolved from it, without  *)
(* a query, with source memory_cache. A row the query returns is in the    *)
(* cache when getWordData returns, and the source is database. A word is   *)
(* unknown only after it missed the cache and its query gave no row.       *)
(***************************************************************************)
C1_Step(c) ==
    LET f == frame[c]
        g == frame'[c]
        a == Last(g.wordAnalyses)
        w == CurrentWord(c)
    IN  /\ Sends(c, "select") => Last(io'[c].events).word \notin DOMAIN wordCache
        /\ (Resolves(c) /\ f.pc = "scan") =>
              /\ w \in DOMAIN wordCache
              /\ a.found /\ a.source = "memory_cache"
              /\ a.emotion_probs = wordCache[w].emotion_probs
              /\ io'[c] = io[c]
              /\ wordCache' = wordCache /\ words_table' = words_table
        /\ (Resolves(c) /\ f.pc = "query") =>
              /\ w \notin DOMAIN wordCache
              /\ Last(io[c].events) = Event("select", w)
              /\ a.found =>
                    /\ a.source = "database"
                    /\ w \in DOMAIN wordCache'
                    /\ \E row \in words_table :
                          /\ ToLowerCase(row.word) = w
                          /\ wordCache'[w] = RowToEmotionData(row)
                    /\ a.emotion_probs = wordCache'[w].emotion_probs
              /\ ~a.found =>
                    /\ a.source = "not_found"
                    /\ wordCache' = wordCache
                    /\ g.unknownWords = Append(f.unknownWords,
                           [word |-> f.words[f.i], clean_word |-> f.cleanWords[f.i],
                            index |-> f.i - 1])
        /\ (Len(g.unknownWords) > Len(f.unknownWords)) => (Resolves(c) /\ f.pc = "query")

C1_TieredResolution == [][\A c \in Calls : C1_Step(c)]_vars

\* One call has resolved a word from the table, the same word from the cache,
\* and found another in neither.
C1_Witness ==
    \E c \in Calls : \E k1, k2, k3 \in DOMAIN frame[c].wordAnalyses :
        /\ frame[c].wordAnalyses[k1].source = "database"
        /\ frame[c].wordAnalyses[k2].source = "memory_cache"
        /\ frame[c].wordAnalyses[k2].clean_word = frame[c].wordAnalyses[k1].clean_word
        /\ k1 < k2
        /\ ~frame[c].wordAnalyses[k3].found

\* The entries of call c's wordAnalyses for the clean word w.
EntriesOf(c, w) ==
    {k \in DOMAIN frame[c].wordAnalyses :
        ToLowerCase(frame[c].wordAnalyses[k].clean_word) = w}

\* The rows of a table for the clean word w.
RowsOf(table, w) == {row \in table : ToLowerCase(row.word) = w}

(***************************************************************************)
(* C2: a word that is in the cache when a call starts is resolved from the *)
(* cache every time the call meets it: each of its entries carries the     *)
(* cached profile with source memory_cache, the call sends no SELECT, no   *)
(* DeepSeek request and no INSERT for it, and its cache entry and its rows *)
(* of the table stay as they were. The resolving step itself changes       *)
(* neither the cache nor the table.                                        *)
(***************************************************************************)
C2_WarmWord(c, w) ==
    /\ w \in DOMAIN wordCache
    /\ wordCache[w] = io[c].cacheAtStart[w]
    /\ RowsOf(words_table, w) = RowsOf(io[c].tableAtStart, w)
    /\ \A op \in {"select", "deepseek", "insert"} :
          \A k \in DOMAIN Sent(c, op) : Sent(c, op)[k] # w
    /\ \A k \in EntriesOf(c, w) :
          /\ frame[c].wordAnalyses[k].found
          /\ frame[c].wordAnalyses[k].source = "memory_cache"
          /\ frame[c].wordAnalyses[k].emotion_probs = io[c].cacheAtStart[w].emotion_probs
          /\ frame[c].wordAnalyses[k].valence = io[c].cacheAtStart[w].vad.valence
          /\ frame[c].wordAnalyses[k].arousal = io[c].cacheAtStart[w].vad.arousal
          /\ frame[c].wordAnalyses[k].sentiment = io[c].cacheAtStart[w].sentiment.polarity

C2_HitStep(c) ==
    (/\ frame[c].pc = "scan"
     /\ frame[c].i <= Len(frame[c].cleanWords)
     /\ CurrentWord(c) \in DOMAIN wordCache)
    => /\ wordCache' = wordCache
       /\ words_table' = words_table
       /\ io'[c] = io[c]
       /\ frame'[c].pc \in {"scan", "threw"}

C2_CachedWordIsStable ==
    /\ [](\A c \in Calls : frame[c].pc # "idle" =>
              \A w \in DOMAIN io[c].cacheAtStart : C2_WarmWord(c, w))
    /\ [][\A c \in Calls : C2_HitStep(c)]_vars

\* A call that started with an inferred word in the cache has met the word
\* twice and is done.
C2_Witness ==
    \E c \in Calls : \E w \in DOMAIN io[c].cacheAtStart :
        /\ frame[c].pc = "done"
        /\ io[c].cacheAtStart[w] = InferredProfile
        /\ Cardinality(EntriesOf(c, w)) >= 2

(***************************************************************************)
(* C3: one analyzeText call sends at most three requests to DeepSeek,      *)
(* however many unknown words the text has and whatever DeepSeek answers.  *)
(***************************************************************************)
C3_AtMostThreeInferenceCalls ==
    \A c \in Calls : Len(Sent(c, "deepseek")) <= 3

\* A call with four unknown words has returned after three requests, of which
\* one gave a profile and two gave nothing.
C3_Witness ==
    \E c \in Calls :
        /\ frame[c].pc = "done"
        /\ Len(frame[c].unknownWords) >= 4
        /\ Len(Sent(c, "deepseek")) = 3
        /\ frame[c].wordsFromDeepSeek = 1

\* The entry of wordAnalyses for the token at 0-based index idx: empty tokens
\* have no entry.
EntryAt(c, idx) ==
    frame[c].wordAnalyses[Cardinality({k \in 1..(idx + 1) :
                                         Len(frame[c].cleanWords[k]) >= 1})]

(***************************************************************************)
(* C4: when DeepSeek gives nothing for a word, that step changes neither   *)
(* the cache nor the table nor the list of analyses, and an unknown word   *)
(* for which the call had no DeepSeek answer keeps found = false and       *)
(* source not_found. Nothing is remembered of the failure: a later scan of *)
(* a word that is not in the cache sends its SELECT, and every word of the *)
(* batch is sent to DeepSeek, whether or not it failed before.             *)
(***************************************************************************)
C4_FailStep(c) ==
    (frame[c].pc = "fetch" /\ frame'[c].pc = "infer") =>
        /\ wordCache' = wordCache
        /\ words_table' = words_table
        /\ io'[c] = io[c]
        /\ frame'[c].wordAnalyses = frame[c].wordAnalyses
        /\ frame'[c].wordsFromDeepSeek = frame[c].wordsFromDeepSeek

C4_RetryStep(c) ==
    /\ (/\ frame[c].pc = "scan" /\ frame'[c] # frame[c]
        /\ frame[c].i <= Len(frame[c].cleanWords)
        /\ Len(frame[c].cleanWords[frame[c].i]) >= 1
        /\ CurrentWord(c) \notin DOMAIN wordCache)
       => (Sends(c, "select") /\ Last(io'[c].events).word = CurrentWord(c))
    /\ (/\ frame[c].pc = "infer" /\ frame'[c] # frame[c]
        /\ frame[c].j <= Len(frame[c].batch))
       => (/\ Sends(c, "deepseek")
           /\ Last(io'[c].events).word = frame[c].batch[frame[c].j].clean_word)

C4_StaysUnknown(c) ==
    \A k \in DOMAIN frame[c].unknownWords :
        LET u == frame[c].unknownWords[k]
        IN  (\A m \in DOMAIN Sent(c, "insert") : Sent(c, "insert")[m] # u.clean_word)
            => /\ ~EntryAt(c, u.index).found
               /\ EntryAt(c, u.index).source = "not_found"
               /\ EntryAt(c, u.index).clean_word = u.clean_word

C4_FailedInferenceLeavesNoTrace ==
    /\ [](\A c \in Calls : C4_StaysUnknown(c))
    /\ [][\A c \in Calls : C4_FailStep(c) /\ C4_RetryStep(c)]_vars

\* A word DeepSeek failed on in an earlier call is in neither the cache nor the
\* table, and a later call has looked it up again and sent it to DeepSeek again.
C4_Witness ==
    \E c \in Calls : \E w \in failedWords :
        /\ frame[c].pc = "fetch"
        /\ frame[c].j = 1
        /\ frame[c].batch[1].clean_word = w
        /\ \E m \in DOMAIN Sent(c, "select") : Sent(c, "select")[m] = w
        /\ Last(io[c].events) = Event("deepseek", w)
        /\ w \notin DOMAIN wordCache
        /\ RowsOf(words_table, w) = {}

(***************************************************************************)
(* C5: no analyzeText call throws. This fails: a DeepSeek answer without   *)
(* the profile properties is cached, and the next call that resolves the   *)
(* word from the cache throws at line 214, outside every try.              *)
(***************************************************************************)
C5_NeverThrows ==
    \A c \in Calls : frame[c].pc # "threw"

\* A value with the three properties of a profile.
HasProfileShape(v) ==
    /\ v.emotion_probs # Undefined
    /\ v.vad # Undefined
    /\ v.sentiment # Undefined

(***************************************************************************)
(* C6: a DeepSeek answer without the shape of a profile is written neither *)
(* to the cache nor to the table, and its word stays not found. This       *)
(* fails: lines 269 and 272 cache the answer and send its INSERT before    *)
(* anything reads it; only the word's entry stays not found.               *)
(***************************************************************************)
C6_ShapelessAnswerIsDropped ==
    /\ \A w \in DOMAIN wordCache : HasProfileShape(wordCache[w])
    /\ \A c \in Calls :
          (frame[c].pc = "save" /\ ~HasProfileShape(frame[c].deepseekResult)) =>
              /\ Last(io[c].events).op # "insert"
              /\ \A k \in EntriesOf(c, frame[c].batch[frame[c].j].clean_word) :
                    ~frame[c].wordAnalyses[k].found

(***************************************************************************)
(* C7, as the code has it: saving a DeepSeek result overwrites. After a    *)
(* save that succeeded the table has exactly one row for the word, the row *)
(* saveWordToDatabase builds from the result, whatever row the table had   *)
(* for the word before; the rows of other words are as they were. A save   *)
(* that failed, and every step that is not a save, leaves the table as it  *)
(* was.                                                                    *)
(***************************************************************************)
C7_SaveStep(c) ==
    LET w == frame[c].batch[frame[c].j].clean_word
    IN  /\ Sends(c, "saved") =>
              /\ Last(io'[c].events).word = w
              /\ RowsOf(words_table', w) = {InsertedRow(w, frame[c].deepseekResult)}
              /\ \A v \in {r.word : r \in words_table \cup words_table'} \ {w} :
                    RowsOf(words_table', v) = RowsOf(words_table, v)
        /\ Sends(c, "not_saved") => words_table' = words_table

C7_SaveOverwrites ==
    [][/\ \A c \in Calls : C7_SaveStep(c)
       /\ (\A c \in Calls : ~Sends(c, "saved")) => words_table' = words_table]_vars

\* The curated row of a word was in the table when the call started, and the
\* call's save has replaced it with the row of the DeepSeek result.
C7_Witness ==
    \E c \in Calls :
        /\ Len(io[c].events) > 0
        /\ Last(io[c].events) = Event("saved", CuratedRow.word)
        /\ CuratedRow \in io[c].tableAtStart
        /\ CuratedRow \notin words_table
        /\ RowsOf(words_table, CuratedRow.word) =
              {InsertedRow(CuratedRow.word, InferredProfile)}

(***************************************************************************)
(* C7, as stated: saving a DeepSeek result is upsert-if-absent, so no step *)
(* changes or removes a row the table already holds. This does not hold    *)
(* of ON CONFLICT (word) DO UPDATE.                                        *)
(***************************************************************************)
C7_SaveKeepsExistingRow ==
    [][\A row \in words_table : row \in words_table']_vars

\* The sum of the eight emotion columns of a row, in thousandths.
RowSum(row) ==
    row.emotion_joy + row.emotion_trust + row.emotion_anticipation
    + row.emotion_surprise + row.emotion_anger + row.emotion_fear
    + row.emotion_sadness + row.emotion_disgust

SumsToOne(n) == 999 <= n /\ n <= 1001

(***************************************************************************)
(* C8: every profile in the cache or in the table has eight probabilities  *)
(* that sum to 1.0 within 0.001. This fails for the table: the INSERT      *)
(* writes 0.125 for every probability that is 0, so the row of a profile   *)
(* with zeros sums to more than 1. Cached values without emotion_probs are *)
(* left to C6.                                                             *)
(***************************************************************************)
C8_ProbabilitiesSumToOne ==
    /\ \A w \in DOMAIN wordCache :
          wordCache[w].emotion_probs # Undefined =>
              /\ Len(wordCache[w].emotion_probs.vals) = 8
              /\ SumsToOne(SeqSum(wordCache[w].emotion_probs.vals))
    /\ \A row \in words_table : SumsToOne(RowSum(row))

(***************************************************************************)
(* C9: when DeepSeek answers for a word, the answer is in the cache when   *)
(* the INSERT is sent and while it is pending; the call sends one INSERT   *)
(* per answer and gets one outcome per INSERT. Cache entries are never     *)
(* removed, so a later call that starts with the word in the cache sends   *)
(* no DeepSeek request for it and resolves it from the cache, whether the  *)
(* INSERT succeeded or failed.                                             *)
(***************************************************************************)
C9_WhileSaving(c) ==
    frame[c].pc = "save" =>
        LET w == frame[c].batch[frame[c].j].clean_word
        IN  /\ w \in DOMAIN wordCache
            /\ wordCache[w] = frame[c].deepseekResult
            /\ Last(io[c].events) = Event("insert", w)

C9_OneInsertPerAnswer(c) ==
    /\ Len(Sent(c, "insert")) = frame[c].wordsFromDeepSeek
    /\ Len(Sent(c, "insert")) <= Len(Sent(c, "deepseek"))
    /\ Len(Sent(c, "saved")) + Len(Sent(c, "not_saved")) =
          Len(Sent(c, "insert")) - (IF frame[c].pc = "save" THEN 1 ELSE 0)

C9_LaterCall(c) ==
    \A w \in DOMAIN io[c].cacheAtStart :
        /\ \A m \in DOMAIN Sent(c, "deepseek") : Sent(c, "deepseek")[m] # w
        /\ \A k \in EntriesOf(c, w) : frame[c].wordAnalyses[k].source = "memory_cache"

C9_AnswerStep(c) ==
    (frame[c].pc = "fetch" /\ frame'[c].pc = "save") =>
        /\ frame[c].batch[frame[c].j].clean_word \in DOMAIN wordCache'
        /\ wordCache'[frame[c].batch[frame[c].j].clean_word] = frame'[c].deepseekResult
        /\ Sends(c, "insert")
        /\ words_table' = words_table

C9_CachedBeforeSaved ==
    /\ [](\A c \in Calls : /\ C9_WhileSaving(c)
                           /\ C9_OneInsertPerAnswer(c)
                           /\ C9_LaterCall(c))
    /\ [][/\ \A c \in Calls : C9_AnswerStep(c)
          /\ \A w \in DOMAIN wordCache : w \in DOMAIN wordCache']_vars

\* The INSERT of an inferred word failed in an earlier call: the word has no
\* row, and a later call has resolved it from the cache and is done without a
\* DeepSeek request.
C9_Witness ==
    \E c \in Calls : \E w \in DOMAIN io[c].cacheAtStart :
        /\ frame[c].pc = "done"
        /\ wordCache[w] = InferredProfile
        /\ RowsOf(words_table, w) = {}
        /\ EntriesOf(c, w) # {}
        /\ Len(Sent(c, "deepseek")) = 0

\* A word is significant: not a stop word, of three characters or more, and not
\* made of digits only.
SignificantWord(w) ==
    /\ w \notin neutralWords
    /\ Len(w) >= 3
    /\ \E k \in DOMAIN w : w[k] \notin Digits

\* The positions in unknownWords of the words to send: the first three
\* significant ones, or the first word if none is significant.
ToSend(unknownWords) ==
    LET sig == {k \in DOMAIN unknownWords : SignificantWord(unknownWords[k].clean_word)}
    IN  IF sig = {} THEN {k \in DOMAIN unknownWords : k = 1}
        ELSE {k \in sig : Cardinality({m \in sig : m < k}) < 3}

\* sent is the words of unknownWords at the first n positions of ToSend.
IsSentPrefix(sent, unknownWords) ==
    /\ Len(sent) <= Cardinality(ToSend(unknownWords))
    /\ \A k \in ToSend(unknownWords) :
          LET rank == Cardinality({m \in ToSend(unknownWords) : m <= k})
          IN  rank <= Len(sent) => sent[rank] = unknownWords[k].clean_word

(***************************************************************************)
(* C10: with the DeepSeek key set, the words a call sends to DeepSeek are  *)
(* the first three significant unknown words of the text, in text order,   *)
(* or the first unknown word alone if none is significant; without the key *)
(* nothing is sent. Every other unknown word keeps found = false and       *)
(* source not_found.                                                       *)
(***************************************************************************)
C10_Selection(c) ==
    LET f == frame[c]
        sent == Sent(c, "deepseek")
    IN  /\ IsSentPrefix(sent, f.unknownWords)
        /\ ~deepseekApiKey => Len(sent) = 0
        /\ (f.pc = "done" /\ deepseekApiKey) =>
              Len(sent) = Cardinality(ToSend(f.unknownWords))
        /\ \A k \in DOMAIN f.unknownWords \ ToSend(f.unknownWords) :
              /\ ~EntryAt(c, f.unknownWords[k].index).found
              /\ EntryAt(c, f.unknownWords[k].index).source = "not_found"

C10_FirstThreeSignificant ==
    \A c \in Calls : frame[c].pc \notin {"idle", "scan", "query"} => C10_Selection(c)

\* A call is done whose first unknown word is a stop word, whose next two are a
\* number and a short word, and whose fourth, the only significant one, was
\* the only word sent.
C10_Witness ==
    \E c \in Calls :
        /\ frame[c].pc = "done"
        /\ Len(frame[c].unknownWords) = 4
        /\ ToSend(frame[c].unknownWords) = {4}
        /\ frame[c].unknownWords[1].clean_word \in neutralWords
        /\ \E k \in 2..3 : Len(frame[c].unknownWords[k].clean_word) < 3
        /\ \E k \in 2..3 :
              /\ Len(frame[c].unknownWords[k].clean_word) >= 3
              /\ \A m \in DOMAIN frame[c].unknownWords[k].clean_word :
                    frame[c].unknownWords[k].clean_word[m] \in Digits
        /\ Sent(c, "deepseek") = <<frame[c].unknownWords[4].clean_word>>
        /\ EntryAt(c, 3).found

(***************************************************************************)
(* C11, as the code has it: the DeepSeek requests of a call are made one   *)
(* after the other. A request is sent only when no request of the call is  *)
(* outstanding and the INSERT of the previous answer has returned: when    *)
(* the request for the j-th word of the batch is outstanding, exactly j    *)
(* requests have been sent, and the first j - 1 of them have completed.    *)
(***************************************************************************)
C11_OneAtATime(c) ==
    LET f == frame[c]
        sent == Len(Sent(c, "deepseek"))
    IN  /\ f.pc \in {"fetch", "save"} => sent = f.j
        /\ f.pc = "infer" => sent = f.j - 1
        /\ f.pc = "fetch" => Last(io[c].events).op = "deepseek"
        /\ Len(Sent(c, "saved")) + Len(Sent(c, "not_saved")) <= sent

IsFound(w) == w.found
FoundOnly(wordAnalyses) == SelectSeq(wordAnalyses, IsFound)

\* What a result says of the text's emotions, apart from the word counts.
Aggregate(analysis) ==
    [overall_emotion |-> analysis.overall_emotion,
     confidence |-> analysis.confidence,
     emotions |-> analysis.emotions,
     analyzed_words |-> analysis.analyzed_words,
     vad |-> analysis.vad,
     sentiment |-> analysis.sentiment]

(***************************************************************************)
(* C12: without the DeepSeek key a call never enters the DeepSeek loop: it *)
(* sends no DeepSeek request and no INSERT and leaves the words table as   *)
(* it found it. Every word that missed both cache and table keeps          *)
(* found = false and source not_found, and the emotions, VAD and sentiment *)
(* of the result are those of the found words alone.                       *)
(***************************************************************************)
C12_Call(c) ==
    LET f == frame[c]
    IN  /\ f.pc \notin {"infer", "fetch", "save"}
        /\ Len(f.batch) = 0
        /\ Len(Sent(c, "deepseek")) = 0
        /\ Len(Sent(c, "insert")) = 0
        /\ f.pc # "idle" => words_table = io[c].tableAtStart
        /\ f.wordsFromDeepSeek = 0
        /\ \A k \in DOMAIN f.unknownWords :
              /\ ~EntryAt(c, f.unknownWords[k].index).found
              /\ EntryAt(c, f.unknownWords[k].index).source = "not_found"
        /\ f.pc = "done" =>
              /\ f.result.debug.words_not_found = Len(f.unknownWords)
              /\ Aggregate(f.result.analysis) =
                    Aggregate(calculateOverallEmotion(FoundOnly(f.wordAnalyses)))

C12_NoKeyNoInference ==
    ~deepseekApiKey => \A c \in Calls : C12_Call(c)

\* Without the key, a call is done with a found word and an unknown
\* significant word, and its result rests on the found word.
C12_Witness ==
    \E c \in Calls :
        /\ ~deepseekApiKey
        /\ frame[c].pc = "done"
        /\ \E k \in DOMAIN frame[c].unknownWords :
              SignificantWord(frame[c].unknownWords[k].clean_word)
        /\ frame[c].result.analysis.analyzed_words = 1
        /\ Len(frame[c].wordAnalyses) = 2

(***************************************************************************)
(* C13: a word whose DeepSeek result is in the words table when a call     *)
(* starts is not sent to DeepSeek by that call, in the same process or     *)
(* after a restart. The rows that are not the curated row are the saved    *)
(* DeepSeek results. This fails after a restart: the cache is empty, and a *)
(* SELECT that fails makes the word unknown.                               *)
(***************************************************************************)
C13_InferredOnce ==
    \A c \in Calls : \A row \in io[c].tableAtStart :
        row # CuratedRow =>
            \A k \in DOMAIN Sent(c, "deepseek") :
                Sent(c, "deepseek")[k] # ToLowerCase(row.word)

\* Call c has sent word w to DeepSeek, got a profile for it, and its INSERT
\* has succeeded; the call is done.
ResolvedBySaving(c, w) ==
    /\ frame[c].pc = "done"
    /\ Sent(c, "deepseek") = <<w>>
    /\ Sent(c, "saved") = <<w>>
    /\ HasProfileShape(frame[c].deepseekResult)

(***************************************************************************)
(* C14: when two overlapping calls have both sent the same unknown word to *)
(* DeepSeek and both have saved a profile for it, the words table has one  *)
(* row for the word and that row is the one the INSERT makes of the cached *)
(* profile. This fails when the two answers differ: the cache keeps the    *)
(* answer that arrived last, the table the one whose INSERT ran last.      *)
(***************************************************************************)
C14_DuplicateResolutionIsIdempotent ==
    \A w \in DOMAIN wordCache :
        (\A c \in Calls : ResolvedBySaving(c, w)) =>
            RowsOf(words_table, w) = {InsertedRow(w, wordCache[w])}

(***************************************************************************)
(* The aggregate of a text (SpecAggregate).                                *)
(***************************************************************************)
\* Equality of two quotients with positive denominators.
RatioEq(x, y) == x.num * y.den = y.num * x.den

\* The analysis call c returns, once it is computed.
Returned(c) == frame[c].result.analysis

\* Entry k of a returned list is a qualifying word.
Qualifies(wordAnalyses, k) ==
    wordAnalyses[k].found /\ wordAnalyses[k].confidence > 250

QualifyingIn(wordAnalyses) ==
    {k \in DOMAIN wordAnalyses : Qualifies(wordAnalyses, k)}

\* C15: a list of word analyses without a qualifying word (found and with a
\* confidence above 0.25) gets the fixed neutral result: each of the 8
\* categories 0.125, confidence 0.125, valence, arousal and dominance 0.5,
\* sentiment neutral, analyzed_words 0 and coverage 0.0.
C15_NeutralWithoutQualifyingWord ==
    \A c \in Calls :
        (frame[c].pc = "done" /\ QualifyingIn(Returned(c).word_analysis) = {}) =>
            LET r == Returned(c)
            IN  /\ r.emotions.keys = EmotionNames
                /\ \A e \in 1..8 : RatioEq(r.emotions.vals[e], Ratio(125, 1000))
                /\ RatioEq(r.confidence, Ratio(125, 1000))
                /\ RatioEq(r.vad.valence, Ratio(1, 2))
                /\ RatioEq(r.vad.arousal, Ratio(1, 2))
                /\ RatioEq(r.vad.dominance, Ratio(1, 2))
                /\ r.sentiment.polarity = "neutral"
                /\ r.analyzed_words = 0
                /\ RatioEq(r.coverage, Ratio(0, 1))

\* A result for a list with a found word of confidence exactly 0.25 and a
\* word that was not found, and nothing else.
C15_Witness ==
    /\ frame[1].pc = "done"
    /\ QualifyingIn(Returned(1).word_analysis) = {}
    /\ \E k \in DOMAIN Returned(1).word_analysis :
          /\ Returned(1).word_analysis[k].found
          /\ Returned(1).word_analysis[k].confidence = 250
    /\ \E k \in DOMAIN Returned(1).word_analysis :
          ~Returned(1).word_analysis[k].found

\* The returned distribution has the 8 categories as its keys.
IsCategory(r, name) == \E e \in DOMAIN r.emotions.keys : r.emotions.keys[e] = name

\* The value of category name in the returned distribution.
DistValue(r, name) ==
    r.emotions.vals[CHOOSE e \in DOMAIN r.emotions.keys : r.emotions.keys[e] = name]

\* No value of the returned distribution is above that of category name.
IsArgMax(r, name) ==
    /\ IsCategory(r, name)
    /\ \A e \in DOMAIN r.emotions.vals :
          ~(r.emotions.vals[e].num * DistValue(r, name).den
                > DistValue(r, name).num * r.emotions.vals[e].den)

\* C16, as amended: in a result with at least one analyzed word,
\* overall_emotion is a category whose value in the returned distribution is
\* maximal and confidence is that value; in the neutral result
\* overall_emotion is 'neutral', which is no category of the distribution,
\* and confidence is the 0.125 every category has.
C16_ArgMaxUnlessNeutral ==
    \A c \in Calls :
        frame[c].pc = "done" =>
            LET r == Returned(c)
            IN  IF r.analyzed_words > 0
                THEN /\ IsArgMax(r, r.overall_emotion)
                     /\ RatioEq(r.confidence, DistValue(r, r.overall_emotion))
                ELSE /\ r.overall_emotion = "neutral"
                     /\ ~IsCategory(r, "neutral")
                     /\ \A e \in DOMAIN r.emotions.vals :
                            RatioEq(r.confidence, r.emotions.vals[e])

\* A result over two qualifying words whose dominant categories differ, the
\* text's being neither the first category nor the last.
C16_Witness ==
    /\ frame[1].pc = "done"
    /\ Returned(1).analyzed_words = 2
    /\ Returned(1).word_analysis[1].emotion # Returned(1).word_analysis[2].emotion
    /\ Returned(1).overall_emotion \notin {"joy", "disgust", "neutral"}

\* C16, as stated: in every result overall_emotion is a category whose value
\* in the returned distribution is maximal, and confidence is that value.
C16_AlwaysArgMax ==
    \A c \in Calls :
        frame[c].pc = "done" =>
            /\ IsArgMax(Returned(c), Returned(c).overall_emotion)
            /\ RatioEq(Returned(c).confidence,
                       DistValue(Returned(c), Returned(c).overall_emotion))

\* The categories in the fixed order of the specification.
FixedOrder ==
    <<"joy", "trust", "anticipation", "surprise", "anger", "fear", "sadness",
      "disgust">>

\* The first category in the fixed order whose returned value is maximal.
FirstArgMax(r) ==
    FixedOrder[CHOOSE e \in DOMAIN FixedOrder :
        /\ IsArgMax(r, FixedOrder[e])
        /\ \A d \in 1..(e - 1) : ~IsArgMax(r, FixedOrder[d])]

\* C17: when two or more categories tie for the maximum normalized weight
\* of a text, overall_emotion is the tied category that comes first in the
\* order joy, trust, anticipation, surprise, anger, fear, sadness, disgust.
C17_FirstTiedCategoryWins ==
    \A c \in Calls :
        (frame[c].pc = "done" /\ Returned(c).analyzed_words > 0) =>
            Returned(c).overall_emotion = FirstArgMax(Returned(c))

\* The probability a found entry's profile gives category name.
ProbOf(w, name) ==
    w.emotion_probs.vals[CHOOSE e \in DOMAIN w.emotion_probs.keys :
                            w.emotion_probs.keys[e] = name]

\* No category of the entry's profile has a probability above that of name.
IsWordMax(w, name) == \A e \in DOMAIN FixedOrder : ProbOf(w, FixedOrder[e]) <= ProbOf(w, name)

\* The first maximum of the entry's profile in the fixed order.
FirstWordMax(w) ==
    FixedOrder[CHOOSE e \in DOMAIN FixedOrder :
        /\ IsWordMax(w, FixedOrder[e])
        /\ \A d \in 1..(e - 1) : ~IsWordMax(w, FixedOrder[d])]

\* C18: the dominant category of a found word is the first maximum of its
\* distribution in the order joy, trust, anticipation, surprise, anger,
\* fear, sadness, disgust, whatever the order of the keys of its profile.
C18_DominantIsFirstMaxInFixedOrder ==
    \A c \in Calls :
        frame[c].pc = "done" =>
            \A k \in DOMAIN Returned(c).word_analysis :
                Returned(c).word_analysis[k].found =>
                    Returned(c).word_analysis[k].emotion
                        = FirstWordMax(Returned(c).word_analysis[k])

\* Twice the factor 3.0, 2.5 or 2.0 of a confidence, the thresholds 0.5 and
\* 0.3 belonging to the upper band (inclusive) or to the lower one.
TwiceFactor(confidence, inclusive) ==
    IF confidence > 500 \/ (inclusive /\ confidence = 500) THEN 6
    ELSE IF confidence > 300 \/ (inclusive /\ confidence = 300) THEN 5
    ELSE 4

\* What the entry's profile counts for in category name: its probability,
\* and 0.125 where that probability is 0 (base = probs[emotion] || 0.125).
CountedProb(w, name) == IF ProbOf(w, name) = 0 THEN 125 ELSE ProbOf(w, name)

\* Twice the running total of category name over entries k..Len of a list,
\* the dominant category of each qualifying word multiplied by its factor.
RECURSIVE TwiceTotal(_, _, _, _)
TwiceTotal(wordAnalyses, k, name, inclusive) ==
    IF k > Len(wordAnalyses) THEN 0
    ELSE (IF ~Qualifies(wordAnalyses, k) THEN 0
          ELSE IF wordAnalyses[k].emotion = name
               THEN CountedProb(wordAnalyses[k], name)
                        * TwiceFactor(wordAnalyses[k].confidence, inclusive)
               ELSE CountedProb(wordAnalyses[k], name) * 2)
         + TwiceTotal(wordAnalyses, k + 1, name, inclusive)

RECURSIVE TwiceGrandTotal(_, _, _)
TwiceGrandTotal(wordAnalyses, e, inclusive) ==
    IF e > Len(FixedOrder) THEN 0
    ELSE TwiceTotal(wordAnalyses, 1, FixedOrder[e], inclusive)
            + TwiceGrandTotal(wordAnalyses, e + 1, inclusive)

\* The returned distribution is the running totals over their sum.
DistributionFollows(r, inclusive) ==
    \A e \in DOMAIN FixedOrder :
        RatioEq(DistValue(r, FixedOrder[e]),
                Ratio(TwiceTotal(r.word_analysis, 1, FixedOrder[e], inclusive),
                      TwiceGrandTotal(r.word_analysis, 1, inclusive)))

\* C19, as amended: the factor applied to a qualifying word's dominant
\* category is 3.0 when its confidence is above 0.5, 2.5 when it is above
\* 0.3 and at most 0.5, and 2.0 otherwise, so a confidence of exactly 0.5 is
\* amplified by 2.5 and one of exactly 0.3 by 2.0: the returned distribution
\* is that of the totals built with these factors.
C19_StrictThresholds ==
    \A c \in Calls :
        (frame[c].pc = "done" /\ Returned(c).analyzed_words > 0) =>
            DistributionFollows(Returned(c), FALSE)

\* A result over a word of confidence exactly 0.5 and one of exactly 0.3.
C19_Witness ==
    /\ frame[1].pc = "done"
    /\ Returned(1).analyzed_words = 2
    /\ \E k \in QualifyingIn(Returned(1).word_analysis) :
          Returned(1).word_analysis[k].confidence = 500
    /\ \E k \in QualifyingIn(Returned(1).word_analysis) :
          Returned(1).word_analysis[k].confidence = 300

\* C19, as stated: the factor is 3.0 when the confidence is >= 0.5, 2.5 when
\* it is >= 0.3 and < 0.5, and 2.0 otherwise.
C19_InclusiveThresholds ==
    \A c \in Calls :
        (frame[c].pc = "done" /\ Returned(c).analyzed_words > 0) =>
            DistributionFollows(Returned(c), TRUE)

\* Twice the running total of category name over entries k..Len of a list
\* when each qualifying word adds exactly its probability, multiplied by its
\* factor for its dominant category.
RECURSIVE TwiceExactTotal(_, _, _)
TwiceExactTotal(wordAnalyses, k, name) ==
    IF k > Len(wordAnalyses) THEN 0
    ELSE (IF ~Qualifies(wordAnalyses, k) THEN 0
          ELSE IF wordAnalyses[k].emotion = name
               THEN ProbOf(wordAnalyses[k], name)
                        * TwiceFactor(wordAnalyses[k].confidence, FALSE)
               ELSE ProbOf(wordAnalyses[k], name) * 2)
         + TwiceExactTotal(wordAnalyses, k + 1, name)

RECURSIVE TwiceExactGrandTotal(_, _)
TwiceExactGrandTotal(wordAnalyses, e) ==
    IF e > Len(FixedOrder) THEN 0
    ELSE TwiceExactTotal(wordAnalyses, 1, FixedOrder[e])
            + TwiceExactGrandTotal(wordAnalyses, e + 1)

\* C20: each qualifying word adds to a category's running total exactly its
\* own probability for the category, multiplied by the amplification factor
\* for its dominant category only, so a category to which the word gives
\* probability 0 receives 0 from it: the returned distribution is that of
\* these totals.
C20_ExactProbabilityIsAdded ==
    \A c \in Calls :
        (frame[c].pc = "done" /\ Returned(c).analyzed_words > 0) =>
            \A e \in DOMAIN FixedOrder :
                RatioEq(DistValue(Returned(c), FixedOrder[e]),
                        Ratio(TwiceExactTotal(Returned(c).word_analysis, 1, FixedOrder[e]),
                              TwiceExactGrandTotal(Returned(c).word_analysis, 1)))

\* The sum of a field over the qualifying entries k..Len of a list.
RECURSIVE QualifyingSum(_, _, _)
QualifyingSum(wordAnalyses, k, field) ==
    IF k > Len(wordAnalyses) THEN 0
    ELSE (IF Qualifies(wordAnalyses, k) THEN wordAnalyses[k][field] ELSE 0)
            + QualifyingSum(wordAnalyses, k + 1, field)

\* The qualifying entries of a list whose sentiment label is polarity.
QualifyingVotes(wordAnalyses, polarity) ==
    Cardinality({k \in QualifyingIn(wordAnalyses) :
                    wordAnalyses[k].sentiment = polarity})

\* C21: the words with found = true and a confidence strictly above 0.25,
\* and no others, make the emotion distribution, the valence and arousal
\* means, the sentiment vote and analyzed_words; a found word with a
\* confidence of exactly 0.25 and an unresolved word add nothing, and the
\* aggregate dominance is 0.5 in every result.
C21_OnlyQualifyingWordsContribute ==
    \A c \in Calls :
        frame[c].pc = "done" =>
            LET r == Returned(c)
                wa == r.word_analysis
                n == Cardinality(QualifyingIn(wa))
                pos == QualifyingVotes(wa, "positive")
                neg == QualifyingVotes(wa, "negative")
            IN  /\ r.analyzed_words = n
                /\ RatioEq(r.vad.dominance, Ratio(1, 2))
                /\ n > 0 =>
                      /\ DistributionFollows(r, FALSE)
                      /\ RatioEq(r.vad.valence,
                                 Ratio(QualifyingSum(wa, 1, "valence"), n * 1000))
                      /\ RatioEq(r.vad.arousal,
                                 Ratio(QualifyingSum(wa, 1, "arousal"), n * 1000))
                      /\ r.sentiment.polarity =
                            IF pos > neg THEN "positive"
                            ELSE IF neg > pos THEN "negative" ELSE "neutral"
                /\ n = 0 =>
                      /\ \A e \in DOMAIN r.emotions.vals :
                            RatioEq(r.emotions.vals[e], Ratio(1, 8))
                      /\ RatioEq(r.vad.valence, Ratio(1, 2))
                      /\ RatioEq(r.vad.arousal, Ratio(1, 2))
                      /\ r.sentiment.polarity = "neutral"

\* A result over a qualifying word and a found word of confidence exactly
\* 0.25 whose valence and sentiment label are not the qualifying word's.
C21_Witness ==
    /\ frame[1].pc = "done"
    /\ Returned(1).analyzed_words = 1
    /\ \E k \in DOMAIN Returned(1).word_analysis :
        \E q \in QualifyingIn(Returned(1).word_analysis) :
          /\ Returned(1).word_analysis[k].found
          /\ Returned(1).word_analysis[k].confidence = 250
          /\ Returned(1).word_analysis[k].valence
                # Returned(1).word_analysis[q].valence
          /\ Returned(1).word_analysis[k].sentiment
                # Returned(1).word_analysis[q].sentiment

\* C22, as amended: the text's polarity is positive when more qualifying
\* words are labelled positive than negative, negative when more are
\* labelled negative than positive, and neutral when the two counts are
\* equal; words labelled neutral have no vote, so one positive word among
\* neutral qualifying words makes the text positive.
C22_PositiveAgainstNegative ==
    \A c \in Calls :
        (frame[c].pc = "done" /\ Returned(c).analyzed_words > 0) =>
            LET pos == QualifyingVotes(Returned(c).word_analysis, "positive")
                neg == QualifyingVotes(Returned(c).word_analysis, "negative")
            IN  /\ pos > neg => Returned(c).sentiment.polarity = "positive"
                /\ neg > pos => Returned(c).sentiment.polarity = "negative"
                /\ pos = neg => Returned(c).sentiment.polarity = "neutral"

\* A result over a word labelled positive and a word labelled neutral, both
\* qualifying.
C22_Witness ==
    /\ frame[1].pc = "done"
    /\ Returned(1).analyzed_words = 2
    /\ QualifyingVotes(Returned(1).word_analysis, "positive") = 1
    /\ QualifyingVotes(Returned(1).word_analysis, "neutral") = 1
    /\ Returned(1).sentiment.polarity = "positive"

\* The label most qualifying words of a list have, neutral on a tie.
MajorityLabel(wordAnalyses) ==
    LET pos == QualifyingVotes(wordAnalyses, "positive")
        neg == QualifyingVotes(wordAnalyses, "negative")
        neu == QualifyingVotes(wordAnalyses, "neutral")
    IN  IF pos > neg /\ pos > neu THEN "positive"
        ELSE IF neg > pos /\ neg > neu THEN "negative"
        ELSE "neutral"

\* C22, as stated: the text's polarity is the majority vote over the labels
\* positive, negative and neutral of the qualifying words, a tie giving
\* neutral.
C22_MajorityOfThreeLabels ==
    \A c \in Calls :
        (frame[c].pc = "done" /\ Returned(c).analyzed_words > 0) =>
            Returned(c).sentiment.polarity = MajorityLabel(Returned(c).word_analysis)

\* The tokens of call c's text that are not empty once stripped.
NonEmptyTokens(c) == {k \in DOMAIN frame[c].cleanWords : frame[c].cleanWords[k] # <<>>}

\* C23: a token that is empty after punctuation stripping is never looked
\* up or sent anywhere and never counted: word_count is the number of
\* non-empty cleaned tokens, analyzed_words is between 0 and word_count, and
\* coverage is analyzed_words / word_count, 0.0 when nothing qualifies,
\* which includes a word_count of 0.
C23_EmptyTokensSkipped ==
    \A c \in Calls :
        /\ \A k \in DOMAIN io[c].events :
              io[c].events[k].op \in {"select", "deepseek", "insert"} =>
                  io[c].events[k].word # <<>>
        /\ frame[c].pc = "done" =>
              LET r == Returned(c)
              IN  /\ r.word_count = Cardinality(NonEmptyTokens(c))
                  /\ Len(r.word_analysis) = r.word_count
                  /\ \A k \in DOMAIN r.word_analysis :
                        r.word_analysis[k].clean_word # <<>>
                  /\ r.analyzed_words >= 0
                  /\ r.analyzed_words <= r.word_count
                  /\ r.analyzed_words > 0 =>
                        RatioEq(r.coverage, Ratio(r.analyzed_words, r.word_count))
                  /\ r.analyzed_words = 0 => RatioEq(r.coverage, Ratio(0, 1))

\* A result for a text with a token of punctuation only and a qualifying
\* word.
C23_Witness ==
    /\ frame[1].pc = "done"
    /\ Cardinality(NonEmptyTokens(1)) < Len(frame[1].cleanWords)
    /\ Returned(1).analyzed_words > 0

(***************************************************************************)
(* The summary of a session (SpecSession).                                 *)
(***************************************************************************)
\* End request c has computed its summary from the messages it read.
Summarized(c) == request[c].kind = "end" /\ request[c].summary # Null

\* End request c has answered with its summary.
Ended(c) ==
    /\ Summarized(c)
    /\ request[c].pc = "done"
    /\ request[c].response.status = 200

\* C24: ending a session of 1, 2 or 3 messages gives the sentiment trend
\* 'stable', whatever the valences of the messages.
C24_ShortSessionIsStable ==
    \A c \in Calls :
        (Summarized(c) /\ Len(request[c].messages) \in 1..3) =>
            request[c].summary.sentiment_trend = "stable"

\* A session of 3 messages whose last valence is more than 0.1 above its
\* first has been ended.
C24_Witness ==
    /\ Ended(1)
    /\ Len(request[1].messages) = 3
    /\ request[1].messages[3].vad.valence > request[1].messages[1].vad.valence + 100
    /\ request[1].messages[1].vad.valence > 0
    /\ sessions[request[1].sessionId].sentiment_trend = "stable"

\* The sum of the valences of rows from..to, each as it is.
RECURSIVE ActualValenceSum(_, _, _)
ActualValenceSum(rows, from, to) ==
    IF from > to THEN 0
    ELSE rows[from].vad.valence + ActualValenceSum(rows, from + 1, to)

\* The trend of n >= 4 messages in chronological order, split at floor(n/2):
\* with diff the mean valence of the second half minus that of the first,
\* improving if diff > 0.1, declining if diff < -0.1, stable otherwise.
TrendOfValences(rows) ==
    LET n == Len(rows)
        mid == n \div 2
        first == ActualValenceSum(rows, 1, mid)
        second == ActualValenceSum(rows, mid + 1, n)
    IN  IF second * mid - first * (n - mid) > 100 * mid * (n - mid) THEN "improving"
        ELSE IF second * mid - first * (n - mid) < 0 - 100 * mid * (n - mid)
             THEN "declining"
        ELSE "stable"

\* C25: for a session of n >= 4 messages the trend is that of the actual
\* valences of the messages, a valence of 0 included, split at floor(n/2):
\* improving above a difference of 0.1, declining below -0.1, stable
\* otherwise.
C25_TrendFromActualValences ==
    \A c \in Calls :
        (Summarized(c) /\ Len(request[c].messages) >= 4) =>
            request[c].summary.sentiment_trend = TrendOfValences(request[c].messages)

\* n times the weight 1 + i/n of message i of n, i = 0 for the oldest.
LinearWeight(i, n) == n + i

RECURSIVE LinearWeightSum(_, _)
LinearWeightSum(k, n) ==
    IF k > n THEN 0 ELSE LinearWeight(k - 1, n) + LinearWeightSum(k + 1, n)

\* The sum over rows k..n of value * weight, the value of a row being its
\* emotion score (group "emotions") or its VAD value (group "vad").
RECURSIVE LinearSum(_, _, _, _)
LinearSum(rows, k, group, name) ==
    IF k > Len(rows) THEN 0
    ELSE (IF group = "vad" THEN rows[k].vad[name]
          ELSE rows[k].emotions.vals[CHOOSE e \in DOMAIN rows[k].emotions.keys :
                                        rows[k].emotions.keys[e] = name])
            * LinearWeight(k - 1, Len(rows))
         + LinearSum(rows, k + 1, group, name)

\* The weighted sum of the rows' values under the normalized weights.
WeightedMean(rows, group, name) ==
    Ratio(LinearSum(rows, 1, group, name), LinearWeightSum(1, Len(rows)) * 1000)

\* x <= y for quotients with positive denominators.
RatioAtMost(x, y) == x.num * y.den <= y.num * x.den

\* C26: for a session of n >= 1 messages the emotion breakdown and the
\* valence, arousal and dominance of the summary are the sums of the
\* messages' values under the weights 1 + i/n (i = 0 for the oldest)
\* normalized to sum to 1, a value of 0 counting as 0; later messages weigh
\* strictly more, and each VAD value of the summary lies between the least
\* and the greatest of the messages' values.
C26_RecencyWeightedSums ==
    \A c \in Calls :
        (Summarized(c) /\ Len(request[c].messages) >= 1) =>
            LET rows == request[c].messages
                sum == request[c].summary
                vadOf == [f \in {"valence", "arousal", "dominance"} |->
                            IF f = "valence" THEN sum.avg_valence
                            ELSE IF f = "arousal" THEN sum.avg_arousal
                            ELSE sum.avg_dominance]
            IN  /\ \A k \in 1..(Len(rows) - 1) :
                      LinearWeight(k, Len(rows)) > LinearWeight(k - 1, Len(rows))
                /\ \A e \in DOMAIN FixedOrder :
                      RatioEq(sum.emotion_breakdown.vals[e],
                              WeightedMean(rows, "emotions", FixedOrder[e]))
                /\ \A f \in DOMAIN vadOf :
                      /\ RatioEq(vadOf[f], WeightedMean(rows, "vad", f))
                      /\ \E k \in DOMAIN rows :
                            RatioAtMost(Ratio(rows[k].vad[f], 1000), vadOf[f])
                      /\ \E k \in DOMAIN rows :
                            RatioAtMost(vadOf[f], Ratio(rows[k].vad[f], 1000))

\* The accumulated value of category name in a summary.
Accumulated(sum, name) ==
    sum.emotion_breakdown.vals[CHOOSE e \in DOMAIN sum.emotion_breakdown.keys :
                                  sum.emotion_breakdown.keys[e] = name]

\* C27: for a session with at least one message, overall_mood is a category
\* whose value in the accumulated emotion breakdown is maximal, and
\* mood_confidence is that category's accumulated value.
C27_MoodIsArgMax ==
    \A c \in Calls :
        (Summarized(c) /\ Len(request[c].messages) >= 1) =>
            LET sum == request[c].summary
            IN  /\ \E e \in DOMAIN sum.emotion_breakdown.keys :
                      sum.emotion_breakdown.keys[e] = sum.overall_mood
                /\ \A e \in DOMAIN sum.emotion_breakdown.vals :
                      RatioAtMost(sum.emotion_breakdown.vals[e],
                                  Accumulated(sum, sum.overall_mood))
                /\ RatioEq(sum.mood_confidence, Accumulated(sum, sum.overall_mood))

\* A session of messages with different emotions has been ended, and its
\* mood is neither the first nor the last category.
C27_Witness ==
    /\ Ended(1)
    /\ Len(request[1].messages) >= 2
    /\ request[1].messages[1].overall_emotion # request[1].messages[2].overall_emotion
    /\ request[1].summary.overall_mood \notin {"joy", "disgust", "neutral"}

\* End request c computes its summary in this step, having read no message.
C28_EmptyRead(c) ==
    /\ request[c].pc = "read"
    /\ request'[c].pc = "update"
    /\ request'[c].messages = <<>>

\* The summary has the fixed neutral values.
IsNeutralSummary(sum) ==
    /\ sum.overall_mood = "neutral"
    /\ RatioEq(sum.mood_confidence, Ratio(125, 1000))
    /\ RatioEq(sum.avg_valence, Ratio(1, 2))
    /\ RatioEq(sum.avg_arousal, Ratio(1, 2))
    /\ RatioEq(sum.avg_dominance, Ratio(1, 2))
    /\ sum.sentiment_trend = "stable"
    /\ sum.message_count = 0

\* C28, as amended: ending a session without messages returns the fixed
\* neutral summary (mood neutral, confidence 0.125, valence, arousal and
\* dominance 0.5, trend stable), and its duration is, as for every session,
\* the whole seconds from started_at to the moment the summary is computed.
C28_NeutralSummaryWithElapsedDuration ==
    /\ [](\A c \in Calls :
            (Summarized(c) /\ request[c].messages = <<>>) =>
                IsNeutralSummary(request[c].summary))
    /\ [][\A c \in Calls :
            C28_EmptyRead(c) =>
                request'[c].summary.duration_seconds
                    = now - sessions[request[c].sessionId].started_at]_vars

\* A session without messages has been ended a second after it started.
C28_Witness ==
    /\ Ended(1)
    /\ request[1].messages = <<>>
    /\ session_messages = <<>>
    /\ request[1].summary.duration_seconds = 1
    /\ sessions[request[1].sessionId].duration_seconds = 1

\* C28, as stated: ending a session without messages returns the fixed
\* neutral summary with a duration of zero.
C28_NeutralSummaryWithZeroDuration ==
    \A c \in Calls :
        (Summarized(c) /\ request[c].messages = <<>>) =>
            /\ IsNeutralSummary(request[c].summary)
            /\ request[c].summary.duration_seconds = 0

\* An end request arrives in this step for a session that is ended.
C29_EndOfEnded(c) ==
    /\ request[c].pc = "idle"
    /\ request'[c].kind = "end"
    /\ request'[c].sessionId \in DOMAIN sessions
    /\ sessions[request'[c].sessionId].status = "ended"

\* C29: the status of a session goes from active to ended only and never
\* back; an end request for a session that is ended is answered with an
\* error at once, and the session row with its stored summary and the rows
\* of profiles are as they were.
C29_EndIsOneWay ==
    [][/\ \A id \in DOMAIN sessions' :
            /\ sessions'[id].status \in {"active", "ended"}
            /\ IF id \in DOMAIN sessions
               THEN sessions[id].status = "ended" => sessions'[id].status = "ended"
               ELSE sessions'[id].status = "active"
       /\ \A c \in Calls :
            C29_EndOfEnded(c) =>
                /\ request'[c].pc = "done"
                /\ request'[c].response.status = 400
                /\ sessions' = sessions
                /\ profiles' = profiles
                /\ sessionLog' = sessionLog]_vars

\* A session with messages was ended, its profile updated, and a further
\* end request for it has been answered with 400.
C29_Witness ==
    /\ request[1].kind = "end"
    /\ request[1].pc = "done"
    /\ request[1].response.status = 400
    /\ sessions[request[1].sessionId].status = "ended"
    /\ sessions[request[1].sessionId].message_count > 0
    /\ Len(sessionLog) = 2
    /\ \E p \in ProfileIds : profiles[p].total_sessions = 1

\* The UPDATE statements of kind op executed for session id so far.
Executed(op, id) ==
    Cardinality({k \in DOMAIN sessionLog :
                    sessionLog[k].op = op /\ sessionLog[k].sessionId = id})

\* C30: however end requests for the same active session overlap, the
\* summary of the session is written once and the total_sessions of its
\* profile is incremented once: never a second time, and once as soon as an
\* end request has been answered with the summary.
C30_EndedExactlyOnce ==
    \A id \in SessionIds :
        /\ Executed("update_session", id) <= 1
        /\ Executed("update_profile", id) <= 1
        /\ (\E c \in Calls : Ended(c) /\ request[c].sessionId = id) =>
              /\ Executed("update_session", id) = 1
              /\ Executed("update_profile", id) = 1
              /\ \A p \in ProfileIds : profiles[p].total_sessions <= 1

(***************************************************************************)
(* C31: the log write is fire-and-forget. The step that computes the       *)
(* result returns it with the call's one INSERT into api_processing_logs   *)
(* still in flight; no other step sends an INSERT, so a call sends at most *)
(* one and a rejected one is not sent again; and the rejection of an       *)
(* INSERT leaves every call, its result included, as it was.               *)
(***************************************************************************)
LogEvents(c) == {k \in DOMAIN io[c].events : io[c].events[k].op = "log"}

LogRejected == Len(logWrites') < Len(logWrites) /\ api_processing_logs' = api_processing_logs

C31_Step ==
    /\ \A c \in Calls :
          IF frame[c].pc = "finish" /\ frame'[c].pc = "done"
          THEN /\ frame'[c].result = Result(frame[c])
               /\ logWrites' = Append(logWrites, [call |-> c, row |-> LogRow(frame[c])])
          ELSE frame[c].pc # "idle" /\ frame'[c].pc # "idle" => frame'[c].result = frame[c].result
    /\ (\A c \in Calls : ~ (frame[c].pc = "finish" /\ frame'[c].pc = "done"))
          => Len(logWrites') <= Len(logWrites)
    /\ \A c \in Calls : Cardinality(LogEvents(c)') <= 1
    /\ LogRejected => frame' = frame /\ io' = io

C31_LogIsFireAndForget == [][C31_Step]_vars

\* A call has its result, and the INSERT it sent has been rejected.
C31_Witness ==
    /\ frame[1].pc = "done"
    /\ frame[1].result # Null
    /\ tokensUsed = Len(frame[1].words)
    /\ logWrites = <<>>
    /\ api_processing_logs = <<>>

(***************************************************************************)
(* C32: analyzeText never receives a string that is empty once trimmed or  *)
(* longer than the length limit: every entry point rejects such a text     *)
(* before the call.                                                        *)
(***************************************************************************)
C32_CoreNeverGetsEmptyOrOverLong ==
    \A c \in Calls :
        frame[c].pc # "idle" =>
            /\ Len(Trim(frame[c].text)) > 0
            /\ Len(frame[c].text) <= TextLimit

(***************************************************************************)
(* C33: an inference call that never returns blocks only the analyzeText   *)
(* call it belongs to: a concurrent call whose own I/O completes returns   *)
(* its result.                                                             *)
(***************************************************************************)
C33_OtherCallsReturnTheirResult ==
    (frame[1].pc = "fetch" /\ frame[2].pc \notin {"idle", "done"}) ~> (frame[2].pc = "done")

\* The same with the rejection of the call counted as its completion.
C33_OtherCallsSettle ==
    (frame[1].pc = "fetch" /\ frame[2].pc \notin {"idle", "done", "threw"})
        ~> (frame[2].pc \in {"done", "threw"})

\* The first call waits for DeepSeek while the second has its result.
C33_HungAndReturned == frame[1].pc = "fetch" /\ frame[2].pc = "done"

(***************************************************************************)
(* C34: GET /v1/status answers overall_status 'operational' only when      *)
(* every endpoint status is 'operational', and when the database is        *)
(* unreachable it reports the database 'down' and an overall status other  *)
(* than 'operational'.                                                     *)
(***************************************************************************)
C34_OperationalOnlyIfAllOperational ==
    \A c \in Calls :
        request[c].kind = "status" /\ request[c].pc = "done" =>
            LET body == request[c].response.body
            IN  /\ body.overall_status = "operational" =>
                      \A k \in DOMAIN body.endpoints.vals :
                          body.endpoints.vals[k] = "operational"
                /\ request[c].dbStats.error =>
                      /\ ValueOf(body.endpoints, "database") = "down"
                      /\ body.overall_status # "operational"

\* C35: the migration never overwrites, and repeating it changes nothing:
\* every step of the script leaves each row of the words table as it was,
\* and a run that follows a run without errors leaves the table exactly as
\* that run left it.
C35_Step ==
    /\ \A r \in words_table : r \in words_table'
    /\ \A n \in 1..(Len(migration'.runs) - 1) :
         migration'.runs[n].errors = 0
            => migration'.runs[n + 1].table = migration'.runs[n].table

C36_OneInferencePerDistinctWord ==
    \A c \in Calls :
        \A j, k \in DOMAIN Sent(c, "deepseek") :
            j # k => Sent(c, "deepseek")[j] # Sent(c, "deepseek")[k]

\* C37: when a call is done, every entry of its word analyses for a word
\* DeepSeek gave the call a profile for is found, with provenance
\* 'deepseek' and the profile's values: none is left as not found.
C37_EveryOccurrenceResolved ==
    \A c \in Calls :
        frame[c].pc = "done" =>
            \A n \in DOMAIN Sent(c, "insert") :
                LET w == Sent(c, "insert")[n]
                IN  HasProfileShape(wordCache[w]) =>
                        \A k \in DOMAIN frame[c].wordAnalyses :
                            frame[c].wordAnalyses[k].clean_word = w =>
                                frame[c].wordAnalyses[k] =
                                    FoundAnalysis(frame[c].wordAnalyses[k].word, w,
                                                  wordCache[w], "deepseek")

\* C38: however add-message and end requests overlap, no step inserts a
\* message row for a session whose status is ended.
C38_Step ==
    Len(session_messages') > Len(session_messages) =>
        sessions[Last(session_messages').session_id].status # "ended"

C38_NoMessageIntoEndedSession == [][C38_Step]_vars

\* C39: when no request is in flight, the message_count of every session is
\* the number of message rows stored for it.
C39_CountMatchesRows ==
    (\A c \in Calls : request[c].pc = "idle") =>
        \A id \in DOMAIN sessions :
            sessions[id].message_count =
                Cardinality({k \in DOMAIN session_messages :
                                session_messages[k].session_id = id})

\* The requests of a token that were passed on at a time after from and not
\* after to, and those passed on from a time on and before another.
AcceptedWithin(log, from, to) ==
    Cardinality({k \in DOMAIN log :
                    log[k].status = "next" /\ log[k].at > from /\ log[k].at <= to})

AcceptedFrom(log, from, to) ==
    Cardinality({k \in DOMAIN log :
                    log[k].status = "next" /\ log[k].at >= from /\ log[k].at < to})

IsSuffix(s, t) == Len(s) <= Len(t) /\ s = SubSeq(t, Len(t) - Len(s) + 1, Len(t))

\* C40: a request is passed on only if the hash of its token is authorized
\* and fewer than 100 requests of the token were passed on in the 60
\* seconds before it; a request answered 401 or 429 adds no time to any
\* client's window; and no 60 seconds that begin with a request passed on
\* hold more than 100 requests of one token that were passed on.
C40_Step ==
    \A token \in Requesters :
        Len(authLog'[token]) = Len(authLog[token]) + 1 =>
            LET answer == Last(authLog'[token])
            IN  /\ answer.status = "next" =>
                      /\ token # NoToken
                      /\ hashToken(token) \in authorizedTokens
                      /\ AcceptedWithin(authLog[token], answer.at - windowMs, answer.at)
                            < maxRequests
                /\ answer.status \in {"401", "429"} =>
                      /\ \A id \in DOMAIN rateLimits' :
                            IF id \in DOMAIN rateLimits
                            THEN IsSuffix(rateLimits'[id], rateLimits[id])
                            ELSE rateLimits'[id] = <<>>
                /\ \A from \in {authLog'[token][k].at : k \in DOMAIN authLog'[token]} :
                      AcceptedFrom(authLog'[token], from, from + windowMs) <= maxRequests

C40_PassesOnlyWithinLimit == [][C40_Step]_vars

\* The first client was passed on 100 times in one instant and then
\* refused, and was passed on again a window later; in between a request
\* with a token that is not configured was answered 401.
C40_Witness ==
    /\ \E k \in DOMAIN authLog[BusyToken] :
          /\ authLog[BusyToken][k].status = "429"
          /\ authLog[BusyToken][k].at = 0
          /\ AcceptedFrom(authLog[BusyToken], 0, 1) = maxRequests
    /\ Last(authLog[BusyToken]).status = "next"
    /\ Last(authLog[BusyToken]).at = windowMs
    /\ \E k \in DOMAIN authLog[GuessedToken] :
          authLog[GuessedToken][k].status = "401" /\ authLog[GuessedToken][k].at = 0

====
